---- MODULE Spec2Model ----
(***************************************************************************)
(* Model of the Seata Go client: the resilience primitives of retry.go     *)
(* (the CircuitBreaker state machine and the RetryManager loops), workflow *)
(* validation, the Transaction handle (transaction.go) and the Saga and    *)
(* TCC orchestrators (saga.go, tcc.go).                                    *)
(*                                                                         *)
(* Time is an integer clock `now`; one unit is the granularity at which    *)
(* time.Now() and time.Since() are observed.                               *)
(***************************************************************************)
EXTENDS Integers, Sequences, FiniteSets, TLC

---------------------------------------------------------------------------
(* Bounds of the model.                                                    *)

\* largest FailureThreshold a breaker is configured with
MaxThreshold == 3
\* largest RecoveryTimeout a breaker is configured with
MaxTimeout == 2
\* last value of the clock
MaxTime == 4
\* number of tasks sharing one breaker
NumTasks == 2
\* number of Execute calls the sharing tasks make in total
MaxCalls == 4
\* largest MaxRetries a RetryManager is configured with
RetriesBound == 2
\* most steps of a workflow handed to Validate
MaxLen == 2
\* most calls made on one Transaction handle
MaxHandleCalls == 3
\* most steps of a workflow handed to ExecuteTCC, and largest MaxConcurrency
MaxBranches == 3
\* most steps of a workflow handed to ExecuteSaga
MaxSagaSteps == 2
\* most status polls of one Saga execution
MaxPolls == 2
\* most steps of a workflow handed to executeCompensation, and most branches
\* of the list handed to it
MaxCompSteps == 3
\* largest config.MaxRetries a client is made with
MaxRetryCount == 2
\* most calls of the methods of one handle
MaxMethodCalls == 2
\* largest RetryConfig.RetryInterval, in units of 2^40 ns
MaxInterval == 2
\* RetryConfig.BackoffFactor is a power of two up to 2^MaxFactorExp
MaxFactorExp == 12
\* largest attempt index handed to calculateBackoff
MaxAttempt == 3

---------------------------------------------------------------------------
(* CircuitBreakerState, retry.go:205-209 (iota).                           *)

CircuitBreakerClosed == 0
CircuitBreakerOpen == 1
CircuitBreakerHalfOpen == 2

VARIABLES
  \* CircuitBreakerConfig (the fields the code reads)
  FailureThreshold, RecoveryTimeout,
  \* CircuitBreaker fields
  state, failureCount, lastFailureTime,
  \* the clock read by time.Now() / time.Since()
  now,
  \* sequential caller of the breaker: its position, what the latest Execute
  \* returned, how often the wrapped operation was invoked by the latest
  \* Execute, the latest breaker event, the breaker state that event found,
  \* and the number of consecutive failed operations since the breaker was
  \* last put to Closed / 0
  cbPc, cbResult, cbInvoked, cbCall, cbFrom, streak,
  \* tasks sharing the breaker without synchronisation: each task's position
  \* inside Execute, the failure count it loaded for failureCount++, the
  \* number of Execute calls begun, and the failure count a breaker whose
  \* recordings exclude each other would hold
  tpc, treg, calls, serialCount,
  \* RetryConfig.MaxRetries
  MaxRetries,
  \* one call of the RetryManager: the method called, whether its validator
  \* argument is nil, what operation and validator return at each attempt,
  \* the loop variables attempt and lastErr, the position in the loop, the
  \* context, the value returned
  fn, validatorNil, script, attempt, lastErr, rpc, ctxDone, rResult,
  \* what the call did: invocations of the operation and of the validator,
  \* the attempt indices of the backoff waits begun, and where the call was
  \* when the context was cancelled, with the invocations made until then
  invocations, validations, waits, cancelledAt, invAtCancel,
  \* a workflow definition: "saga" or "tcc", its Steps, and what Validate
  \* returned for it
  mode, workflow, vErr,
  \* a Transaction handle: its branches field, the requests sent to the
  \* coordinator for its transaction (StartTransaction included) with the
  \* replies, in the order they returned, and the error the latest call of
  \* a method returned
  branches, txLog, txErr,
  \* one call of the TCCManager: the method called, the ExecutionOptions it
  \* reads, the phase it is in, and what it returned
  tccFn, ParallelBranches, MaxConcurrency, tccPc, tccResult,
  \* the phase under way: each step's task (its position and the error its
  \* call returned), the elements held by the semaphore channel, the errors
  \* sent to errChan, and the error the Try or Confirm phase returned
  gpc, gerr, permits, errChan, phaseErr,
  \* what the call did: how often each method was called for each step, and
  \* the calls that returned an error
  issued, failedCalls,
  \* one call of the SagaManager: the method called, its position, the index
  \* of the AddBranch loop, the context, the timeout timer, the ticker's
  \* channel, the GetInfo calls begun, and what it returned
  sagaFn, spc, sidx, sCtxDone, sTimedOut, tickReady, polls, sagaResult,
  \* executeCompensation: its branches argument (info.Branches), the index
  \* of its loop over the steps, each step's compensation task and what
  \* compensationFunc returned for it, the errors sent to errChan, and how
  \* often compensationFunc was invoked for each step
  reported, cidx, cpc, cerr, compErrs, compCount,
  \* Transaction fields gid, mode and payload (transaction.go:10-16)
  gid, txMode, payload,
  \* the retry count of the client's HTTP client (client.go:89) and the
  \* outcomes of the HTTP attempts of the latest method call of the handle
  RetryCount, sends,
  \* tasks sharing one handle: each task's position inside AddBranch and the
  \* value of tx.branches it has loaded
  apc, aheld,
  \* calculateBackoff: RetryConfig.RetryInterval and BackoffFactor, the
  \* attempt index, the architecture the program was built for, whether the
  \* call has returned, and the time.Duration it returned.  Durations are
  \* counted in units of 2^40 ns, rounded down
  RetryInterval, BackoffFactor, backoffAttempt, goarch, bpc, delay

cbFields == <<state, failureCount, lastFailureTime>>
cbConfig == <<FailureThreshold, RecoveryTimeout>>
cbCaller == <<cbPc, cbResult, cbInvoked, cbCall, cbFrom, streak>>

cbTasks == <<tpc, treg, calls, serialCount>>

retryCall == <<fn, validatorNil, script, attempt, lastErr, rpc, ctxDone,
               rResult>>
retryLog == <<invocations, validations, waits, cancelledAt, invAtCancel>>
definition == <<mode, workflow, vErr>>
\* the variables of workflow definition and execution
handle == <<branches, txLog, txErr>>
txFields == <<gid, txMode, payload>>
transport == <<RetryCount, sends>>
sharers == <<apc, aheld>>
\* the variables of the client and of the handle's fields that the
\* orchestrators never touch
client == <<txFields, transport, sharers>>
backoff ==
  <<RetryInterval, BackoffFactor, backoffAttempt, goarch, bpc, delay>>
tccCall == <<tccFn, ParallelBranches, MaxConcurrency, tccPc, tccResult>>
tccPhase == <<gpc, gerr, permits, errChan, phaseErr>>
tccLog == <<issued, failedCalls>>
sagaCall ==
  <<sagaFn, spc, sidx, sCtxDone, sTimedOut, tickReady, polls, sagaResult>>
compensation == <<reported, cidx, cpc, cerr, compErrs, compCount>>
orchestration ==
  <<definition, handle, tccCall, tccPhase, tccLog, sagaCall, compensation>>

vars == <<FailureThreshold, RecoveryTimeout, state, failureCount,
          lastFailureTime, now, cbPc, cbResult, cbInvoked, cbCall,
          cbFrom, streak, tpc, treg, calls, serialCount,
          MaxRetries, fn, validatorNil, script, attempt, lastErr, rpc,
          ctxDone, rResult, invocations, validations, waits, cancelledAt,
          invAtCancel, mode, workflow, vErr,
          branches, txLog, txErr, tccFn, ParallelBranches, MaxConcurrency,
          tccPc, tccResult, gpc, gerr, permits, errChan, phaseErr, issued,
          failedCalls, sagaFn, spc, sidx, sCtxDone, sTimedOut, tickReady,
          polls, sagaResult, reported, cidx, cpc, cerr, compErrs, compCount,
          gid, txMode, payload, RetryCount, sends, apc, aheld,
          RetryInterval, BackoffFactor, backoffAttempt, goarch, bpc, delay>>

\* what the breaker's actions leave alone, and what the RetryManager's do
notBreaker ==
  <<MaxRetries, retryCall, retryLog, orchestration, client, backoff>>
notRetry ==
  <<cbConfig, cbFields, now, cbCaller, cbTasks, orchestration, client,
    backoff>>
notOrchestration ==
  <<cbConfig, cbFields, now, cbCaller, cbTasks, MaxRetries, retryCall,
    retryLog, client, backoff>>
\* what Validate leaves alone, and what the methods of a handle do
notDefinition ==
  <<notOrchestration, handle, tccCall, tccPhase, tccLog, sagaCall,
    compensation>>
notHandle ==
  <<notOrchestration, definition, tccCall, tccPhase, tccLog, sagaCall,
    compensation>>
\* what a TCC execution leaves alone, and what a Saga execution does
notTCC == <<notOrchestration, definition, handle, sagaCall, compensation>>
notSaga == <<notOrchestration, definition, tccCall, tccPhase, tccLog>>

Tasks == 1..NumTasks

\* the zero time.Time of a fresh breaker: further in the past than any
\* RecoveryTimeout of the model
ZeroTime == 0 - (MaxTimeout + 1)
\* "no breaker event yet"
NoState == 0 - 1

\* time.Since(t), retry.go:226
TimeSince(t) == now - t

---------------------------------------------------------------------------
(* NewCircuitBreaker, retry.go:212-220.                                    *)

NewCircuitBreaker ==
  /\ state = CircuitBreakerClosed
  /\ failureCount = 0
  /\ lastFailureTime = ZeroTime

\* FailureThreshold is a plain int: zero and negative values are accepted
InitBreaker ==
  /\ FailureThreshold \in (0 - 1)..MaxThreshold
  /\ RecoveryTimeout \in 0..MaxTimeout
  /\ NewCircuitBreaker
  /\ now = 0

InitCaller ==
  /\ cbPc = "idle"
  /\ cbResult = "none"
  /\ cbInvoked = 0
  /\ cbCall = "none"
  /\ cbFrom = NoState
  /\ streak = 0

InitTasks ==
  /\ tpc = [t \in Tasks |-> "idle"]
  /\ treg = [t \in Tasks |-> 0]
  /\ calls = 0
  /\ serialCount = 0

(* The values of one RetryManager call (retry.go:26-129) and its initial   *)
(* states.                                                                 *)

\* a nil error, and the errors operation and validator return at attempt i
NoError == <<"nil", 0>>
OperationError(i) == <<"operation", i>>
ValidatorError(i) == <<"validator", i>>

\* what one attempt can bring: operation and validator succeed ("ok"), the
\* operation fails ("opErr"), or the operation succeeds and the validator
\* fails ("valErr", only where a validator is called)
Outcomes(f, vnil) ==
  IF f = "ExecuteWithRetryAndValidation" /\ ~vnil
    THEN {"ok", "opErr", "valErr"}
    ELSE {"ok", "opErr"}

Running == [kind |-> "running", wraps |-> NoError, at |-> "none"]
\* return nil (retry.go:40, 125)
ReturnNil == [kind |-> "nil", wraps |-> NoError, at |-> "attempt"]
\* return ctx.Err() (retry.go:33, 56, 73, 93, 116)
ReturnCtxErr(at) == [kind |-> "ctx", wraps |-> NoError, at |-> at]
\* return fmt.Errorf("operation failed after %d retries: %w", ..., lastErr)
\* (retry.go:62, 128)
ReturnExhausted(err) == [kind |-> "exhausted", wraps |-> err, at |-> "end"]

InitRetry ==
  /\ MaxRetries \in 0..RetriesBound
  /\ fn \in {"ExecuteWithRetry", "ExecuteWithRetryAndValidation"}
  /\ validatorNil \in BOOLEAN
  /\ (fn = "ExecuteWithRetry" => validatorNil)
  /\ script \in [1..(MaxRetries + 2) -> Outcomes(fn, validatorNil)]
  /\ attempt = 0
  /\ lastErr = NoError
  /\ rpc = "head"
  /\ ctxDone \in BOOLEAN
  /\ rResult = Running
  /\ invocations = 0
  /\ validations = 0
  /\ waits = <<>>
  /\ cancelledAt = IF ctxDone THEN "before" ELSE "never"
  /\ invAtCancel = 0

\* calculateBackoff is not being called: the default RetryConfig
InitNoBackoff ==
  /\ RetryInterval = 0
  /\ BackoffFactor = 2
  /\ backoffAttempt = 0
  /\ goarch = "amd64"
  /\ bpc = "idle"
  /\ delay = 0

\* no RetryManager call is running
InitNoRetry ==
  /\ InitNoBackoff
  /\ MaxRetries = 0
  /\ fn = "ExecuteWithRetry"
  /\ validatorNil = TRUE
  /\ script = <<>>
  /\ attempt = 0
  /\ lastErr = NoError
  /\ rpc = "done"
  /\ ctxDone = FALSE
  /\ rResult = Running
  /\ invocations = 0
  /\ validations = 0
  /\ waits = <<>>
  /\ cancelledAt = "never"
  /\ invAtCancel = 0

\* no breaker is in use
InitNoBreaker ==
  /\ FailureThreshold = 0
  /\ RecoveryTimeout = 0
  /\ NewCircuitBreaker
  /\ now = 0

\* neither a breaker nor a RetryManager is in use
InitNoResilience == InitNoBreaker /\ InitCaller /\ InitTasks /\ InitNoRetry

(* The values of a workflow definition (SagaStep, SagaWorkflow of saga.go, *)
(* TCCStep, TCCWorkflow of tcc.go) and of the errors Validate returns.     *)

\* the strings a step's fields are drawn from; "" is the empty string
BranchIDs == {"", "a", "b"}
SagaSteps ==
  [BranchID : BranchIDs, Action : {"", "act"}, Compensate : {"", "comp"}]
TCCSteps ==
  [BranchID : BranchIDs, Try : {"", "try"}, Confirm : {"", "confirm"},
   Cancel : {"", "cancel"}]

\* the sequences over S of at most n elements
SeqUpTo(S, n) == UNION {[1..k -> S] : k \in 0..n}

\* fmt.Errorf(msg) and fmt.Errorf(msg + ": %s", id); a nil error; and the
\* value of vErr while Validate has not been called
ValidationError(msg, id) == [msg |-> msg, id |-> id]
NoValidationError == ValidationError("nil", "")
NotValidated == ValidationError("not called", "")

\* no workflow is being defined
InitNoDefinition ==
  /\ mode = "saga"
  /\ workflow = <<>>
  /\ vErr = NotValidated

\* the coordinator's replies to a request: status 200, another status, or
\* no response (the HTTP client returns an error)
Replies == {"200", "500", "error"}

\* a handle as StartTransaction returns it, transaction.go:10-16
NewTransaction ==
  /\ branches = <<>>
  /\ txLog = <<>>
  /\ txErr = "nil"

(* The values of one TCCManager call, tcc.go:22-211.                       *)

\* branch IDs of the steps of a workflow under execution, by position
BranchNames == <<"a", "b", "c", "d">>

\* the workflow of n steps with pairwise distinct branch IDs and every field
\* set
WorkflowOfTCC(n) ==
  [i \in 1..n |->
    [BranchID |-> BranchNames[i], Try |-> "try", Confirm |-> "confirm",
     Cancel |-> "cancel"]]

Methods == {"Try", "Confirm", "Cancel"}

\* no call of a phase has failed
NoPhaseError == [phase |-> "none", step |-> 0]
\* fmt.Errorf("try phase failed for branch %s: %w", ...) and the like
PhaseError(phase, i) == [phase |-> phase, step |-> i]

\* the values ExecuteTCC returns
TCCRunning == [kind |-> "running", wraps |-> NoPhaseError, branch |-> ""]
TCCReturnNil == [kind |-> "nil", wraps |-> NoPhaseError, branch |-> ""]
TCCStartFailed ==
  [kind |-> "failed to start TCC transaction", wraps |-> NoPhaseError,
   branch |-> ""]
TCCPhaseFailed(err) ==
  [kind |-> IF tccFn = "ExecuteTCC"
              THEN IF err.phase = "Try" THEN "TCC try phase failed"
                   ELSE "TCC confirm phase failed"
            ELSE IF err.phase = "Try"
              THEN "TCC try phase with barrier failed"
            ELSE "TCC confirm phase with barrier failed",
   wraps |-> err, branch |-> workflow[err.step].BranchID]

\* the tasks of a phase before any is started
NoTasks ==
  /\ gpc = [i \in DOMAIN workflow |-> "pending"]
  /\ gerr = [i \in DOMAIN workflow |-> "none"]
  /\ permits = 0
  /\ errChan = <<>>
  /\ phaseErr = NoPhaseError

NoCalls ==
  /\ issued = [m \in Methods |-> [i \in DOMAIN workflow |-> 0]]
  /\ failedCalls = {}

\* no TCCManager call is running
InitNoTCC ==
  /\ tccFn = "ExecuteTCC"
  /\ ParallelBranches = FALSE
  /\ MaxConcurrency = 0
  /\ tccPc = "done"
  /\ tccResult = TCCRunning
  /\ NoTasks
  /\ NoCalls

(* The values of one SagaManager call, saga.go:23-194.                     *)

\* the steps of a workflow under execution: every step has an action and a
\* compensate target, its branch ID may be empty or that of another step
SagaCallSteps ==
  {step \in SagaSteps : step.Action = "act" /\ step.Compensate = "comp"}

\* Transaction statuses, models.go, and a status that is none of them
StatusSubmitted == "SUBMITTED"
StatusCommitted == "COMMITTED"
StatusAborted == "ABORTED"
Statuses == {StatusSubmitted, StatusCommitted, StatusAborted, "OTHER"}

\* Branch statuses, models.go
BranchStatusPrepared == "PREPARED"
BranchStatusSucceed == "SUCCEED"
BranchStatusFailed == "FAILED"
BranchStatuses ==
  {BranchStatusPrepared, BranchStatusSucceed, BranchStatusFailed}

\* the values ExecuteSaga and ExecuteSagaWithCompensation return: kind is
\* the message, branch the branch ID it names, errs the compensation errors
\* it carries
SagaReturn(kind, branch, errs) ==
  [kind |-> kind, branch |-> branch, errs |-> errs]
SagaRunning == SagaReturn("running", "", <<>>)
SagaReturnNil == SagaReturn("nil", "", <<>>)

\* no compensation is under way
NoCompensation ==
  /\ reported = <<>>
  /\ cidx = 0
  /\ cpc = [i \in DOMAIN workflow |-> "idle"]
  /\ cerr = [i \in DOMAIN workflow |-> "none"]
  /\ compErrs = <<>>
  /\ compCount = [i \in DOMAIN workflow |-> 0]

\* no SagaManager call is running
InitNoSaga ==
  /\ sagaFn = "ExecuteSaga"
  /\ spc = "done"
  /\ sidx = 1
  /\ sCtxDone = FALSE
  /\ sTimedOut = FALSE
  /\ tickReady = FALSE
  /\ polls = 0
  /\ sagaResult = SagaRunning
  /\ NoCompensation

\* the fields of a handle made by StartTransaction for a call of an
\* orchestrator (client.go:180-186), on a client that repeats no request,
\* with no task inside AddBranch
InitNoClient ==
  /\ gid = "gid"
  /\ txMode = "saga"
  /\ payload = "payload"
  /\ RetryCount = 0
  /\ sends = <<>>
  /\ apc = [t \in Tasks |-> "idle"]
  /\ aheld = [t \in Tasks |-> <<>>]

InitNoOrchestration ==
  InitNoDefinition /\ NewTransaction /\ InitNoTCC /\ InitNoSaga
    /\ InitNoClient

\* time passes
Tick ==
  /\ now < MaxTime
  /\ now' = now + 1
  /\ UNCHANGED <<cbConfig, cbFields, cbCaller, cbTasks>>
  /\ UNCHANGED notBreaker

---------------------------------------------------------------------------
(* recordFailure, retry.go:247-254.                                        *)

\* variant: the threshold test written with > instead of >=
recordFailure_StrictThreshold ==
  /\ failureCount' = failureCount + 1
  /\ lastFailureTime' = now
  /\ state' = IF failureCount' > FailureThreshold
                THEN CircuitBreakerOpen
                ELSE state

\* variant: the threshold test written with == instead of >=
recordFailure_ExactThreshold ==
  /\ failureCount' = failureCount + 1
  /\ lastFailureTime' = now
  /\ state' = IF failureCount' = FailureThreshold
                THEN CircuitBreakerOpen
                ELSE state

\* variant: only a Closed breaker is opened
recordFailure_ClosedOnly ==
  /\ failureCount' = failureCount + 1
  /\ lastFailureTime' = now
  /\ state' = IF failureCount' >= FailureThreshold
                   /\ state = CircuitBreakerClosed
                THEN CircuitBreakerOpen
                ELSE state

recordFailure ==
  /\ failureCount' = failureCount + 1
  /\ lastFailureTime' = now
  /\ state' = IF failureCount' >= FailureThreshold
                THEN CircuitBreakerOpen
                ELSE state

(* recordSuccess, retry.go:257-260.                                        *)

\* variant: the counter is not cleared
recordSuccess_KeepCount ==
  /\ failureCount' = failureCount
  /\ state' = CircuitBreakerClosed

recordSuccess ==
  /\ failureCount' = 0
  /\ state' = CircuitBreakerClosed

(* Reset, retry.go:268-271: the two assignments.                           *)

\* variant: only the counter is cleared
ResetBody_CountOnly ==
  /\ failureCount' = 0
  /\ UNCHANGED <<state, lastFailureTime>>

ResetBody ==
  /\ failureCount' = 0
  /\ state' = CircuitBreakerClosed
  /\ UNCHANGED lastFailureTime

(* Execute, retry.go:223-234: the admission check, up to the call of the   *)
(* wrapped operation or the early return.                                  *)

Admission ==
  IF state = CircuitBreakerOpen
    THEN IF TimeSince(lastFailureTime) > RecoveryTimeout
           THEN /\ state' = CircuitBreakerHalfOpen
                /\ cbPc' = "op"
                /\ cbResult' = "none"
                /\ cbInvoked' = 1
                /\ cbCall' = "Execute"
           ELSE /\ state' = state
                /\ cbPc' = "idle"
                /\ cbResult' = "circuit breaker is open"
                /\ cbInvoked' = 0
                /\ cbCall' = "Reject"
    ELSE /\ state' = state
         /\ cbPc' = "op"
         /\ cbResult' = "none"
         /\ cbInvoked' = 1
         /\ cbCall' = "Execute"

ExecuteCall ==
  /\ cbPc = "idle"
  /\ Admission
  /\ cbFrom' = state
  /\ UNCHANGED <<cbConfig, failureCount, lastFailureTime, now, streak,
                 cbTasks>>
  /\ UNCHANGED notBreaker

(* Execute, retry.go:234-243: the wrapped operation returns err (TRUE: an  *)
(* error, FALSE: nil) and the outcome is recorded.                         *)

ExecuteReturn(err) ==
  /\ cbPc = "op"
  /\ cbPc' = "idle"
  /\ IF err
       THEN /\ recordFailure
            /\ cbResult' = "err"
            /\ cbCall' = "ReturnErr"
            /\ streak' = streak + 1
       ELSE /\ recordSuccess
            /\ UNCHANGED lastFailureTime
            /\ cbResult' = "nil"
            /\ cbCall' = "ReturnNil"
            /\ streak' = 0
  /\ cbFrom' = state
  /\ UNCHANGED <<cbConfig, now, cbInvoked, cbTasks>>
  /\ UNCHANGED notBreaker

OperationFails == ExecuteReturn(TRUE)
OperationSucceeds == ExecuteReturn(FALSE)

(* Reset called between two Execute calls.                                 *)

Reset ==
  /\ cbPc = "idle"
  /\ ResetBody
  /\ cbFrom' = state
  /\ cbCall' = "Reset"
  /\ streak' = 0
  /\ UNCHANGED <<cbConfig, now, cbPc, cbResult, cbInvoked, cbTasks>>
  /\ UNCHANGED notBreaker

(* Reset called as an administrative override while an Execute call is     *)
(* inside its wrapped operation.                                           *)

ResetInFlight ==
  /\ cbPc = "op"
  /\ ResetBody
  /\ cbFrom' = state
  /\ cbCall' = "Reset"
  /\ streak' = 0
  /\ UNCHANGED <<cbConfig, now, cbPc, cbResult, cbInvoked, cbTasks>>
  /\ UNCHANGED notBreaker

---------------------------------------------------------------------------
(* One caller at a time: Execute and Reset calls never overlap.            *)

Init ==
  InitBreaker /\ InitCaller /\ InitTasks /\ InitNoRetry
    /\ InitNoOrchestration

Next ==
  \/ Tick
  \/ ExecuteCall
  \/ OperationFails
  \/ OperationSucceeds
  \/ Reset

Spec == Init /\ [][Next]_vars

(* The same caller plus an administrator who may call Reset at any time.   *)

NextAdmin ==
  \/ Tick
  \/ ExecuteCall
  \/ OperationFails
  \/ OperationSucceeds
  \/ Reset
  \/ ResetInFlight

SpecAdmin == Init /\ [][NextAdmin]_vars

---------------------------------------------------------------------------
(* Several tasks call Execute on one breaker.  The CircuitBreaker struct   *)
(* (retry.go:195-200) holds no lock and Execute takes none, so the loads   *)
(* and stores of the tasks interleave statement by statement.               *)

\* retry.go:225, the load of cb.state
TaskCheckState(t) ==
  /\ tpc[t] = "idle"
  /\ calls < MaxCalls
  /\ calls' = calls + 1
  /\ tpc' = [tpc EXCEPT ![t] =
               IF state = CircuitBreakerOpen THEN "open" ELSE "op"]
  /\ UNCHANGED <<cbConfig, cbFields, now, cbCaller, treg, serialCount>>
  /\ UNCHANGED notBreaker

\* retry.go:226-230, the time test and the store of HalfOpen or the return
TaskOpenBranch(t) ==
  /\ tpc[t] = "open"
  /\ IF TimeSince(lastFailureTime) > RecoveryTimeout
       THEN /\ state' = CircuitBreakerHalfOpen
            /\ tpc' = [tpc EXCEPT ![t] = "op"]
       ELSE /\ state' = state
            /\ tpc' = [tpc EXCEPT ![t] = "idle"]
  /\ UNCHANGED <<cbConfig, failureCount, lastFailureTime, now, cbCaller,
                 treg, calls, serialCount>>
  /\ UNCHANGED notBreaker

\* retry.go:234-243, the wrapped operation returns
TaskOperationReturns(t, err) ==
  /\ tpc[t] = "op"
  /\ tpc' = [tpc EXCEPT ![t] = IF err THEN "load" ELSE "clear"]
  /\ UNCHANGED <<cbConfig, cbFields, now, cbCaller, treg, calls,
                 serialCount>>
  /\ UNCHANGED notBreaker

\* retry.go:248, cb.failureCount++: the load
TaskLoadCount(t) ==
  /\ tpc[t] = "load"
  /\ treg' = [treg EXCEPT ![t] = failureCount]
  /\ tpc' = [tpc EXCEPT ![t] = "store"]
  /\ UNCHANGED <<cbConfig, cbFields, now, cbCaller, calls, serialCount>>
  /\ UNCHANGED notBreaker

\* retry.go:248, cb.failureCount++: the store
TaskStoreCount(t) ==
  /\ tpc[t] = "store"
  /\ failureCount' = treg[t] + 1
  /\ serialCount' = serialCount + 1
  /\ tpc' = [tpc EXCEPT ![t] = "stamp"]
  /\ UNCHANGED <<cbConfig, state, lastFailureTime, now, cbCaller, treg,
                 calls>>
  /\ UNCHANGED notBreaker

\* retry.go:249
TaskStamp(t) ==
  /\ tpc[t] = "stamp"
  /\ lastFailureTime' = now
  /\ tpc' = [tpc EXCEPT ![t] = "threshold"]
  /\ UNCHANGED <<cbConfig, state, failureCount, now, cbCaller, treg, calls,
                 serialCount>>
  /\ UNCHANGED notBreaker

\* retry.go:251-253
TaskThreshold(t) ==
  /\ tpc[t] = "threshold"
  /\ state' = IF failureCount >= FailureThreshold
                THEN CircuitBreakerOpen
                ELSE state
  /\ tpc' = [tpc EXCEPT ![t] = "idle"]
  /\ UNCHANGED <<cbConfig, failureCount, lastFailureTime, now, cbCaller,
                 treg, calls, serialCount>>
  /\ UNCHANGED notBreaker

\* retry.go:258
TaskClearCount(t) ==
  /\ tpc[t] = "clear"
  /\ failureCount' = 0
  /\ serialCount' = 0
  /\ tpc' = [tpc EXCEPT ![t] = "close"]
  /\ UNCHANGED <<cbConfig, state, lastFailureTime, now, cbCaller, treg,
                 calls>>
  /\ UNCHANGED notBreaker

\* retry.go:259
TaskClose(t) ==
  /\ tpc[t] = "close"
  /\ state' = CircuitBreakerClosed
  /\ tpc' = [tpc EXCEPT ![t] = "idle"]
  /\ UNCHANGED <<cbConfig, failureCount, lastFailureTime, now, cbCaller,
                 treg, calls, serialCount>>
  /\ UNCHANGED notBreaker

TaskOperationFails == \E t \in Tasks : TaskOperationReturns(t, TRUE)
TaskOperationSucceeds == \E t \in Tasks : TaskOperationReturns(t, FALSE)

NextShared ==
  \/ Tick
  \/ \E t \in Tasks : TaskCheckState(t)
  \/ \E t \in Tasks : TaskOpenBranch(t)
  \/ TaskOperationFails
  \/ TaskOperationSucceeds
  \/ \E t \in Tasks : TaskLoadCount(t)
  \/ \E t \in Tasks : TaskStoreCount(t)
  \/ \E t \in Tasks : TaskStamp(t)
  \/ \E t \in Tasks : TaskThreshold(t)
  \/ \E t \in Tasks : TaskClearCount(t)
  \/ \E t \in Tasks : TaskClose(t)

SpecShared == Init /\ [][NextShared]_vars

---------------------------------------------------------------------------
(* RetryManager, retry.go:10-129.  One call of ExecuteWithRetry or of      *)
(* ExecuteWithRetryAndValidation; the operation, the validator and the     *)
(* backoff wait are the places where the call is suspended and where the   *)
(* context may be cancelled.                                               *)

\* the caller's context is cancelled
Cancel ==
  /\ rpc # "done"
  /\ ~ctxDone
  /\ ctxDone' = TRUE
  /\ cancelledAt' = rpc
  /\ invAtCancel' = invocations
  /\ UNCHANGED <<MaxRetries, fn, validatorNil, script, attempt, lastErr,
                 rpc, rResult, invocations, validations, waits, notRetry>>

(* ExecuteWithRetry, retry.go:29-38: the loop condition, the context check *)
(* and the call of the operation.                                          *)

\* variant: the loop runs while attempt < MaxRetries
RetryLoopHead_OneTooFew ==
  /\ fn = "ExecuteWithRetry"
  /\ rpc = "head"
  /\ IF ~(attempt < MaxRetries)
       THEN /\ rpc' = "done"
            /\ rResult' = ReturnExhausted(lastErr)
            /\ UNCHANGED invocations
       ELSE IF ctxDone
              THEN /\ rpc' = "done"
                   /\ rResult' = ReturnCtxErr("head")
                   /\ UNCHANGED invocations
              ELSE /\ rpc' = "op"
                   /\ invocations' = invocations + 1
                   /\ UNCHANGED rResult
  /\ UNCHANGED <<MaxRetries, fn, validatorNil, script, attempt, lastErr,
                 ctxDone, validations, waits, cancelledAt, invAtCancel,
                 notRetry>>

\* variant: the context is checked before the first attempt only
RetryLoopHead_CheckOnce ==
  /\ fn = "ExecuteWithRetry"
  /\ rpc = "head"
  /\ IF ~(attempt <= MaxRetries)
       THEN /\ rpc' = "done"
            /\ rResult' = ReturnExhausted(lastErr)
            /\ UNCHANGED invocations
       ELSE IF ctxDone /\ attempt = 0
              THEN /\ rpc' = "done"
                   /\ rResult' = ReturnCtxErr("head")
                   /\ UNCHANGED invocations
              ELSE /\ rpc' = "op"
                   /\ invocations' = invocations + 1
                   /\ UNCHANGED rResult
  /\ UNCHANGED <<MaxRetries, fn, validatorNil, script, attempt, lastErr,
                 ctxDone, validations, waits, cancelledAt, invAtCancel,
                 notRetry>>

RetryLoopHead ==
  /\ fn = "ExecuteWithRetry"
  /\ rpc = "head"
  /\ IF ~(attempt <= MaxRetries)
       THEN /\ rpc' = "done"
            /\ rResult' = ReturnExhausted(lastErr)
            /\ UNCHANGED invocations
       ELSE IF ctxDone
              THEN /\ rpc' = "done"
                   /\ rResult' = ReturnCtxErr("head")
                   /\ UNCHANGED invocations
              ELSE /\ rpc' = "op"
                   /\ invocations' = invocations + 1
                   /\ UNCHANGED rResult
  /\ UNCHANGED <<MaxRetries, fn, validatorNil, script, attempt, lastErr,
                 ctxDone, validations, waits, cancelledAt, invAtCancel,
                 notRetry>>

(* ExecuteWithRetry, retry.go:38-51: the operation returns; on an error    *)
(* the loop is left after the last attempt, else the backoff delay of this *)
(* attempt is computed (calculateBackoff(attempt)) and the wait begins.    *)

\* variant: no break on the last attempt
RetryOperationReturns_NoBreak ==
  /\ fn = "ExecuteWithRetry"
  /\ rpc = "op"
  /\ IF script[invocations] = "opErr"
       THEN /\ lastErr' = OperationError(invocations)
            /\ rpc' = "wait"
            /\ waits' = Append(waits, attempt)
            /\ UNCHANGED rResult
       ELSE /\ rpc' = "done"
            /\ rResult' = ReturnNil
            /\ UNCHANGED <<lastErr, waits>>
  /\ UNCHANGED <<MaxRetries, fn, validatorNil, script, attempt, ctxDone,
                 invocations, validations, cancelledAt, invAtCancel,
                 notRetry>>

RetryOperationReturns ==
  /\ fn = "ExecuteWithRetry"
  /\ rpc = "op"
  /\ IF script[invocations] = "opErr"
       THEN /\ lastErr' = OperationError(invocations)
            /\ IF attempt = MaxRetries
                 THEN /\ rpc' = "done"
                      /\ rResult' = ReturnExhausted(lastErr')
                      /\ UNCHANGED waits
                 ELSE /\ rpc' = "wait"
                      /\ waits' = Append(waits, attempt)
                      /\ UNCHANGED rResult
       ELSE /\ rpc' = "done"
            /\ rResult' = ReturnNil
            /\ UNCHANGED <<lastErr, waits>>
  /\ UNCHANGED <<MaxRetries, fn, validatorNil, script, attempt, ctxDone,
                 invocations, validations, cancelledAt, invAtCancel,
                 notRetry>>

(* ExecuteWithRetry, retry.go:54-59 and the attempt++ of line 29: the      *)
(* select on ctx.Done() and time.After(delay).  When both channels are     *)
(* ready the select takes either.                                          *)

RetryTimerFires ==
  /\ fn = "ExecuteWithRetry"
  /\ rpc = "wait"
  /\ attempt' = attempt + 1
  /\ rpc' = "head"
  /\ UNCHANGED <<MaxRetries, fn, validatorNil, script, lastErr, ctxDone,
                 rResult, retryLog, notRetry>>

\* variant: case <-ctx.Done() leaves the loop instead of returning ctx.Err()
RetryWaitCancelled_Break ==
  /\ fn = "ExecuteWithRetry"
  /\ rpc = "wait"
  /\ ctxDone
  /\ rpc' = "done"
  /\ rResult' = ReturnExhausted(lastErr)
  /\ UNCHANGED <<MaxRetries, fn, validatorNil, script, attempt, lastErr,
                 ctxDone, retryLog, notRetry>>

RetryWaitCancelled ==
  /\ fn = "ExecuteWithRetry"
  /\ rpc = "wait"
  /\ ctxDone
  /\ rpc' = "done"
  /\ rResult' = ReturnCtxErr("wait")
  /\ UNCHANGED <<MaxRetries, fn, validatorNil, script, attempt, lastErr,
                 ctxDone, retryLog, notRetry>>

(* ExecuteWithRetryAndValidation, retry.go:69-78.                          *)

ValidationLoopHead ==
  /\ fn = "ExecuteWithRetryAndValidation"
  /\ rpc = "head"
  /\ IF ~(attempt <= MaxRetries)
       THEN /\ rpc' = "done"
            /\ rResult' = ReturnExhausted(lastErr)
            /\ UNCHANGED invocations
       ELSE IF ctxDone
              THEN /\ rpc' = "done"
                   /\ rResult' = ReturnCtxErr("head")
                   /\ UNCHANGED invocations
              ELSE /\ rpc' = "op"
                   /\ invocations' = invocations + 1
                   /\ UNCHANGED rResult
  /\ UNCHANGED <<MaxRetries, fn, validatorNil, script, attempt, lastErr,
                 ctxDone, validations, waits, cancelledAt, invAtCancel,
                 notRetry>>

(* ExecuteWithRetryAndValidation, retry.go:78-101: the operation returns;  *)
(* an error is handled at lines 80-88, a success calls the validator if    *)
(* there is one (101-102) and returns nil if there is none (125).          *)

\* variant: after a failed operation the wait begins on the last attempt too
ValidationOperationReturns_NoBreak ==
  /\ fn = "ExecuteWithRetryAndValidation"
  /\ rpc = "op"
  /\ IF script[invocations] = "opErr"
       THEN /\ lastErr' = OperationError(invocations)
            /\ rpc' = "waitOp"
            /\ waits' = Append(waits, attempt)
            /\ UNCHANGED <<rResult, validations>>
       ELSE IF ~validatorNil
              THEN /\ rpc' = "validate"
                   /\ validations' = validations + 1
                   /\ UNCHANGED <<lastErr, waits, rResult>>
              ELSE /\ rpc' = "done"
                   /\ rResult' = ReturnNil
                   /\ UNCHANGED <<lastErr, waits, validations>>
  /\ UNCHANGED <<MaxRetries, fn, validatorNil, script, attempt, ctxDone,
                 invocations, cancelledAt, invAtCancel, notRetry>>

ValidationOperationReturns ==
  /\ fn = "ExecuteWithRetryAndValidation"
  /\ rpc = "op"
  /\ IF script[invocations] = "opErr"
       THEN /\ lastErr' = OperationError(invocations)
            /\ IF attempt = MaxRetries
                 THEN /\ rpc' = "done"
                      /\ rResult' = ReturnExhausted(lastErr')
                      /\ UNCHANGED waits
                 ELSE /\ rpc' = "waitOp"
                      /\ waits' = Append(waits, attempt)
                      /\ UNCHANGED rResult
            /\ UNCHANGED validations
       ELSE IF ~validatorNil
              THEN /\ rpc' = "validate"
                   /\ validations' = validations + 1
                   /\ UNCHANGED <<lastErr, waits, rResult>>
              ELSE /\ rpc' = "done"
                   /\ rResult' = ReturnNil
                   /\ UNCHANGED <<lastErr, waits, validations>>
  /\ UNCHANGED <<MaxRetries, fn, validatorNil, script, attempt, ctxDone,
                 invocations, cancelledAt, invAtCancel, notRetry>>

(* ExecuteWithRetryAndValidation, retry.go:102-125: the validator returns. *)

\* variant: the validator's error is returned at once
ValidatorReturns_NoRetry ==
  /\ fn = "ExecuteWithRetryAndValidation"
  /\ rpc = "validate"
  /\ IF script[invocations] = "valErr"
       THEN /\ lastErr' = ValidatorError(invocations)
            /\ rpc' = "done"
            /\ rResult' = ReturnExhausted(lastErr')
            /\ UNCHANGED waits
       ELSE /\ rpc' = "done"
            /\ rResult' = ReturnNil
            /\ UNCHANGED <<lastErr, waits>>
  /\ UNCHANGED <<MaxRetries, fn, validatorNil, script, attempt, ctxDone,
                 invocations, validations, cancelledAt, invAtCancel,
                 notRetry>>

ValidatorReturns ==
  /\ fn = "ExecuteWithRetryAndValidation"
  /\ rpc = "validate"
  /\ IF script[invocations] = "valErr"
       THEN /\ lastErr' = ValidatorError(invocations)
            /\ IF attempt = MaxRetries
                 THEN /\ rpc' = "done"
                      /\ rResult' = ReturnExhausted(lastErr')
                      /\ UNCHANGED waits
                 ELSE /\ rpc' = "waitVal"
                      /\ waits' = Append(waits, attempt)
                      /\ UNCHANGED rResult
       ELSE /\ rpc' = "done"
            /\ rResult' = ReturnNil
            /\ UNCHANGED <<lastErr, waits>>
  /\ UNCHANGED <<MaxRetries, fn, validatorNil, script, attempt, ctxDone,
                 invocations, validations, cancelledAt, invAtCancel,
                 notRetry>>

(* ExecuteWithRetryAndValidation, retry.go:91-97: the wait after a failed  *)
(* operation.                                                              *)

OperationWaitTimerFires ==
  /\ fn = "ExecuteWithRetryAndValidation"
  /\ rpc = "waitOp"
  /\ attempt' = attempt + 1
  /\ rpc' = "head"
  /\ UNCHANGED <<MaxRetries, fn, validatorNil, script, lastErr, ctxDone,
                 rResult, retryLog, notRetry>>

OperationWaitCancelled ==
  /\ fn = "ExecuteWithRetryAndValidation"
  /\ rpc = "waitOp"
  /\ ctxDone
  /\ rpc' = "done"
  /\ rResult' = ReturnCtxErr("wait")
  /\ UNCHANGED <<MaxRetries, fn, validatorNil, script, attempt, lastErr,
                 ctxDone, retryLog, notRetry>>

(* ExecuteWithRetryAndValidation, retry.go:114-120: the wait after a       *)
(* failed validation.                                                      *)

ValidatorWaitTimerFires ==
  /\ fn = "ExecuteWithRetryAndValidation"
  /\ rpc = "waitVal"
  /\ attempt' = attempt + 1
  /\ rpc' = "head"
  /\ UNCHANGED <<MaxRetries, fn, validatorNil, script, lastErr, ctxDone,
                 rResult, retryLog, notRetry>>

ValidatorWaitCancelled ==
  /\ fn = "ExecuteWithRetryAndValidation"
  /\ rpc = "waitVal"
  /\ ctxDone
  /\ rpc' = "done"
  /\ rResult' = ReturnCtxErr("wait")
  /\ UNCHANGED <<MaxRetries, fn, validatorNil, script, attempt, lastErr,
                 ctxDone, retryLog, notRetry>>

InitRetryCall ==
  InitNoBreaker /\ InitCaller /\ InitTasks /\ InitRetry
    /\ InitNoOrchestration /\ InitNoBackoff

NextRetry ==
  \/ Cancel
  \/ RetryLoopHead
  \/ RetryOperationReturns
  \/ RetryTimerFires
  \/ RetryWaitCancelled
  \/ ValidationLoopHead
  \/ ValidationOperationReturns
  \/ ValidatorReturns
  \/ OperationWaitTimerFires
  \/ OperationWaitCancelled
  \/ ValidatorWaitTimerFires
  \/ ValidatorWaitCancelled

SpecRetry == InitRetryCall /\ [][NextRetry]_vars

---------------------------------------------------------------------------
(* RetryManager.calculateBackoff, retry.go:132-141.  A time.Duration is an *)
(* int64 of nanoseconds; here durations are counted in units of 2^40 ns,   *)
(* so that the int64 range is MinDuration..MaxDuration units.  float64     *)
(* values are the numbers they stand for, and every value from Huge on is  *)
(* kept as Huge: such a value and its twentieth are both outside the int64 *)
(* range.                                                                  *)

MaxDuration == 2^23 - 1
MinDuration == 0 - 2^23
Huge == 2^30

\* the product of two float64 values that are not negative
Times(a, b) ==
  IF a = 0 \/ b = 0 THEN 0
  ELSE IF a > Huge \div b THEN Huge
  ELSE a * b

\* math.Pow(x, float64(n)), retry.go:135
RECURSIVE Pow(_, _)
Pow(x, n) == IF n = 0 THEN 1 ELSE Times(x, Pow(x, n - 1))

\* the conversion time.Duration(x) of a float64 that is not negative,
\* retry.go:138, 140: the fraction is dropped; for a value outside the int64
\* range the result depends on the architecture (the smallest int64 on
\* amd64, the largest on arm64)
DurationOf(x, arch) ==
  IF x <= MaxDuration THEN x
  ELSE IF arch = "amd64" THEN MinDuration
  ELSE MaxDuration

\* the int64 sum of two durations: it wraps around
Plus(a, b) == ((a + b - MinDuration) % 2^24) + MinDuration

\* baseDelay * math.Pow(BackoffFactor, attempt), retry.go:134-135
ExponentialDelay(interval, factor, n) == Times(interval, Pow(factor, n))

\* exponentialDelay * 0.1 * (0.5 - math.Mod(float64(UnixNano), 1.0)),
\* retry.go:138: float64(UnixNano) is a whole number, so math.Mod is 0 and
\* the factor is 0.05 at every instant
JitterOf(exponentialDelay) == exponentialDelay \div 20

\* calculateBackoff(attempt), retry.go:132-141
CalculateBackoffOf(interval, factor, n, arch) ==
  Plus(DurationOf(ExponentialDelay(interval, factor, n), arch),
       DurationOf(JitterOf(ExponentialDelay(interval, factor, n)), arch))

calculateBackoff ==
  /\ bpc = "call"
  /\ delay' = CalculateBackoffOf(RetryInterval, BackoffFactor,
                                 backoffAttempt, goarch)
  /\ bpc' = "done"
  /\ UNCHANGED <<RetryInterval, BackoffFactor, backoffAttempt, goarch>>
  /\ UNCHANGED <<cbConfig, cbFields, now, cbCaller, cbTasks, MaxRetries,
                 retryCall, retryLog, orchestration, client>>

\* a RetryManager with a RetryConfig whose interval is not negative and
\* whose factor is a power of two, about to compute the delay of an attempt
InitBackoff ==
  /\ InitNoBreaker
  /\ InitCaller
  /\ InitTasks
  /\ InitNoOrchestration
  /\ MaxRetries = MaxAttempt
  /\ fn = "ExecuteWithRetry"
  /\ validatorNil = TRUE
  /\ script = <<>>
  /\ attempt = 0
  /\ lastErr = NoError
  /\ rpc = "done"
  /\ ctxDone = FALSE
  /\ rResult = Running
  /\ invocations = 0
  /\ validations = 0
  /\ waits = <<>>
  /\ cancelledAt = "never"
  /\ invAtCancel = 0
  /\ RetryInterval \in 0..MaxInterval
  /\ BackoffFactor \in {2^e : e \in 0..MaxFactorExp}
  /\ backoffAttempt \in 0..MaxAttempt
  /\ goarch \in {"amd64", "arm64"}
  /\ bpc = "call"
  /\ delay = 0

NextBackoff == calculateBackoff

SpecBackoff == InitBackoff /\ [][NextBackoff]_vars

---------------------------------------------------------------------------
(* SagaWorkflow.Validate, saga.go:214-234, and TCCWorkflow.Validate,       *)
(* tcc.go:232-258.                                                         *)

\* the loop body without the duplicate check
SagaStepError_NoDuplicateCheck(step, seen) ==
  IF step.BranchID = "" THEN ValidationError("branch ID cannot be empty", "")
  ELSE IF step.Action = "" THEN ValidationError("action cannot be empty", "")
  ELSE NoValidationError

\* the checks of one loop iteration, saga.go:221-229; seen is the map
SagaStepError(step, seen) ==
  IF step.BranchID = "" THEN ValidationError("branch ID cannot be empty", "")
  ELSE IF step.Action = "" THEN ValidationError("action cannot be empty", "")
  ELSE IF step.BranchID \in seen
    THEN ValidationError("duplicate branch ID", step.BranchID)
  ELSE NoValidationError

\* the loop from step i on, saga.go:220-231
RECURSIVE SagaValidateFrom(_, _, _)
SagaValidateFrom(steps, i, seen) ==
  IF i > Len(steps) THEN NoValidationError
  ELSE IF SagaStepError(steps[i], seen) # NoValidationError
    THEN SagaStepError(steps[i], seen)
  ELSE SagaValidateFrom(steps, i + 1, seen \cup {steps[i].BranchID})

SagaValidate(steps) ==
  IF Len(steps) = 0
    THEN ValidationError("saga workflow must have at least one step", "")
  ELSE SagaValidateFrom(steps, 1, {})

\* the checks of one loop iteration, tcc.go:239-253
TCCStepError(step, seen) ==
  IF step.BranchID = "" THEN ValidationError("branch ID cannot be empty", "")
  ELSE IF step.Try = ""
    THEN ValidationError("try action cannot be empty", "")
  ELSE IF step.Confirm = ""
    THEN ValidationError("confirm action cannot be empty", "")
  ELSE IF step.Cancel = ""
    THEN ValidationError("cancel action cannot be empty", "")
  ELSE IF step.BranchID \in seen
    THEN ValidationError("duplicate branch ID", step.BranchID)
  ELSE NoValidationError

\* the loop from step i on, tcc.go:238-255
RECURSIVE TCCValidateFrom(_, _, _)
TCCValidateFrom(steps, i, seen) ==
  IF i > Len(steps) THEN NoValidationError
  ELSE IF TCCStepError(steps[i], seen) # NoValidationError
    THEN TCCStepError(steps[i], seen)
  ELSE TCCValidateFrom(steps, i + 1, seen \cup {steps[i].BranchID})

TCCValidate(steps) ==
  IF Len(steps) = 0
    THEN ValidationError("TCC workflow must have at least one step", "")
  ELSE TCCValidateFrom(steps, 1, {})

\* a caller builds a workflow of either kind
InitDefinition ==
  /\ mode \in {"saga", "tcc"}
  /\ workflow \in SeqUpTo(IF mode = "saga" THEN SagaSteps ELSE TCCSteps,
                          MaxLen)
  /\ vErr = NotValidated

\* sw.Validate()
SagaValidateCall ==
  /\ mode = "saga"
  /\ vErr = NotValidated
  /\ vErr' = SagaValidate(workflow)
  /\ UNCHANGED <<mode, workflow>>
  /\ UNCHANGED notDefinition

\* tw.Validate()
TCCValidateCall ==
  /\ mode = "tcc"
  /\ vErr = NotValidated
  /\ vErr' = TCCValidate(workflow)
  /\ UNCHANGED <<mode, workflow>>
  /\ UNCHANGED notDefinition

InitValidate ==
  InitNoResilience /\ InitDefinition /\ NewTransaction /\ InitNoTCC
    /\ InitNoSaga /\ InitNoClient

NextValidate ==
  \/ SagaValidateCall
  \/ TCCValidateCall

SpecValidate == InitValidate /\ [][NextValidate]_vars

---------------------------------------------------------------------------
(* Transaction.AddBranch, transaction.go:37-65.                            *)

\* the request a call sends and the reply it got
HandleCall(method, branchID, action, reply) ==
  [method |-> method, BranchID |-> branchID, Action |-> action,
   reply |-> reply]

\* &Branch{BranchID: branchID, Action: action}
Branch(branchID, action) == [BranchID |-> branchID, Action |-> action]

\* the append moved in front of the two checks of the response
AddBranch_AppendFirst(branchID, action, reply) ==
  /\ txLog' = Append(txLog, HandleCall("AddBranch", branchID, action, reply))
  /\ branches' = Append(branches, Branch(branchID, action))
  /\ txErr' = IF reply = "error" THEN "failed to add branch"
              ELSE IF reply # "200" THEN "failed to add branch: status"
              ELSE "nil"

AddBranch(branchID, action, reply) ==
  /\ txLog' = Append(txLog, HandleCall("AddBranch", branchID, action, reply))
  /\ IF reply = "error"
       THEN /\ txErr' = "failed to add branch"
            /\ UNCHANGED branches
     ELSE IF reply # "200"
       THEN /\ txErr' = "failed to add branch: status"
            /\ UNCHANGED branches
     ELSE /\ branches' = Append(branches, Branch(branchID, action))
          /\ txErr' = "nil"

\* a caller of the handle adds a branch
AddBranchCall ==
  /\ Len(txLog) < MaxHandleCalls
  /\ \E branchID \in BranchIDs \ {""}, reply \in Replies :
       AddBranch(branchID, "act", reply)
  /\ UNCHANGED notHandle

InitHandle ==
  InitNoResilience /\ InitNoDefinition /\ NewTransaction /\ InitNoTCC
    /\ InitNoSaga /\ InitNoClient

NextHandle == AddBranchCall

SpecHandle == InitHandle /\ [][NextHandle]_vars

---------------------------------------------------------------------------
(* TCCManager: ExecuteTCC and ExecuteTCCWithBarrier, tcc.go:22-211.        *)
(* A step's task is "pending" until it is started, "spawned" as a          *)
(* goroutine that has not called yet, "flight" while its call is under     *)
(* way, "returned" after the call and "exited" after its deferred calls.   *)

\* what a branch call (tx.Try, tx.Confirm, tx.Cancel) returns
CallErrors == {"nil", "error"}

Steps == DOMAIN workflow

\* the calls under way
InFlight == {i \in Steps : gpc[i] = "flight"}

\* a phase starts: the loops at tcc.go:91-103, 153-165 and 201-208 start
\* one goroutine per step, the sequential loops (120, 182) start nothing
BeginPhase(phase) ==
  /\ tccPc' = phase
  /\ gpc' = [i \in Steps |->
              IF phase = "Cancel" \/ ParallelBranches THEN "spawned"
              ELSE "pending"]
  /\ gerr' = [i \in Steps |-> "none"]
  /\ permits' = 0
  /\ errChan' = <<>>

\* tm.client.StartTransaction returns, tcc.go:28-34 and 57-63
TCCStartTransaction ==
  /\ tccPc = "start"
  /\ \E reply \in Replies :
       IF reply = "200"
         THEN /\ BeginPhase("Try")
              /\ UNCHANGED <<tccResult, phaseErr>>
       ELSE /\ tccPc' = "done"
            /\ tccResult' = TCCStartFailed
            /\ UNCHANGED tccPhase
  /\ UNCHANGED <<tccFn, ParallelBranches, MaxConcurrency, tccLog>>
  /\ UNCHANGED notTCC

\* the send on the semaphore channel without its capacity
Acquire_NoWait(i) ==
  /\ tccPc \in {"Try", "Confirm"}
  /\ ParallelBranches
  /\ gpc[i] = "spawned"
  /\ permits' = permits + 1
  /\ gpc' = [gpc EXCEPT ![i] = "flight"]
  /\ issued' = [issued EXCEPT ![tccPc][i] = @ + 1]
  /\ UNCHANGED <<gerr, errChan, phaseErr, failedCalls, tccCall>>
  /\ UNCHANGED notTCC

\* semaphore <- struct{}{} and the start of the call, tcc.go:96-99, 158-161:
\* the send goes through while the channel holds fewer than MaxConcurrency
\* elements (with capacity 0 there is no receiver and it never does)
Acquire(i) ==
  /\ tccPc \in {"Try", "Confirm"}
  /\ ParallelBranches
  /\ gpc[i] = "spawned"
  /\ permits < MaxConcurrency
  /\ permits' = permits + 1
  /\ gpc' = [gpc EXCEPT ![i] = "flight"]
  /\ issued' = [issued EXCEPT ![tccPc][i] = @ + 1]
  /\ UNCHANGED <<gerr, errChan, phaseErr, failedCalls, tccCall>>
  /\ UNCHANGED notTCC

\* tx.Try / tx.Confirm returns in a goroutine, tcc.go:99-101, 161-163
BranchReturns(i, err) ==
  /\ tccPc \in {"Try", "Confirm"}
  /\ ParallelBranches
  /\ gpc[i] = "flight"
  /\ gpc' = [gpc EXCEPT ![i] = "returned"]
  /\ gerr' = [gerr EXCEPT ![i] = err]
  /\ IF err = "error"
       THEN /\ errChan' = Append(errChan, PhaseError(tccPc, i))
            /\ failedCalls' = failedCalls \cup {<<tccPc, i>>}
     ELSE UNCHANGED <<errChan, failedCalls>>
  /\ UNCHANGED <<permits, phaseErr, issued, tccCall>>
  /\ UNCHANGED notTCC

\* the task exits without taking its element out of the semaphore channel
Release_KeepsPermit(i) ==
  /\ tccPc \in {"Try", "Confirm"}
  /\ ParallelBranches
  /\ gpc[i] = "returned"
  /\ gpc' = [gpc EXCEPT ![i] = "exited"]
  /\ UNCHANGED <<permits, gerr, errChan, phaseErr, tccLog, tccCall>>
  /\ UNCHANGED notTCC

\* the deferred <-semaphore and wg.Done(), tcc.go:94-97, 156-159
Release(i) ==
  /\ tccPc \in {"Try", "Confirm"}
  /\ ParallelBranches
  /\ gpc[i] = "returned"
  /\ gpc' = [gpc EXCEPT ![i] = "exited"]
  /\ permits' = permits - 1
  /\ UNCHANGED <<gerr, errChan, phaseErr, tccLog, tccCall>>
  /\ UNCHANGED notTCC

SequentialCall_AnyOrder(i) ==
  /\ tccPc \in {"Try", "Confirm"}
  /\ ~ParallelBranches
  /\ gpc[i] = "pending"
  /\ gpc' = [gpc EXCEPT ![i] = "flight"]
  /\ issued' = [issued EXCEPT ![tccPc][i] = @ + 1]
  /\ UNCHANGED <<gerr, permits, errChan, phaseErr, failedCalls, tccCall>>
  /\ UNCHANGED notTCC

\* the sequential loops call for the next step, tcc.go:120-121, 182-183
SequentialCall(i) ==
  /\ tccPc \in {"Try", "Confirm"}
  /\ ~ParallelBranches
  /\ gpc[i] = "pending"
  /\ \A j \in 1..(i - 1) : gpc[j] = "exited"
  /\ gpc' = [gpc EXCEPT ![i] = "flight"]
  /\ issued' = [issued EXCEPT ![tccPc][i] = @ + 1]
  /\ UNCHANGED <<gerr, permits, errChan, phaseErr, failedCalls, tccCall>>
  /\ UNCHANGED notTCC

\* the call of a sequential loop returns, tcc.go:121-124, 183-186; an error
\* ends the phase and ExecuteTCC starts the Cancel phase (36, 43, 64, 70)
SequentialReturns(i, err) ==
  /\ tccPc \in {"Try", "Confirm"}
  /\ ~ParallelBranches
  /\ gpc[i] = "flight"
  /\ IF err = "error"
       THEN /\ failedCalls' = failedCalls \cup {<<tccPc, i>>}
            /\ phaseErr' = PhaseError(tccPc, i)
            /\ BeginPhase("Cancel")
     ELSE /\ gpc' = [gpc EXCEPT ![i] = "exited"]
          /\ gerr' = [gerr EXCEPT ![i] = err]
          /\ UNCHANGED <<tccPc, permits, errChan, phaseErr, failedCalls>>
  /\ UNCHANGED <<tccFn, ParallelBranches, MaxConcurrency, tccResult, issued>>
  /\ UNCHANGED notTCC

\* the Confirm phase follows the Try phase whatever the Try calls returned
PhaseReturns_ConfirmAfterFailedTry ==
  /\ tccPc \in {"Try", "Confirm"}
  /\ \A i \in Steps : gpc[i] = "exited"
  /\ IF tccPc = "Try"
       THEN /\ BeginPhase("Confirm")
            /\ UNCHANGED <<phaseErr, tccResult>>
     ELSE IF errChan # <<>>
       THEN /\ phaseErr' = errChan[1]
            /\ BeginPhase("Cancel")
            /\ UNCHANGED tccResult
     ELSE /\ tccPc' = "done"
          /\ tccResult' = TCCReturnNil
          /\ UNCHANGED tccPhase
  /\ UNCHANGED <<tccFn, ParallelBranches, MaxConcurrency, tccLog>>
  /\ UNCHANGED notTCC

\* a parallel phase returns as soon as an error is in errChan
PhaseReturns_FailFast ==
  /\ tccPc \in {"Try", "Confirm"}
  /\ errChan # <<>> \/ \A i \in Steps : gpc[i] = "exited"
  /\ IF errChan # <<>>
       THEN /\ phaseErr' = errChan[1]
            /\ BeginPhase("Cancel")
            /\ UNCHANGED tccResult
     ELSE IF tccPc = "Try"
       THEN /\ BeginPhase("Confirm")
            /\ UNCHANGED <<phaseErr, tccResult>>
     ELSE /\ tccPc' = "done"
          /\ tccResult' = TCCReturnNil
          /\ UNCHANGED tccPhase
  /\ UNCHANGED <<tccFn, ParallelBranches, MaxConcurrency, tccLog>>
  /\ UNCHANGED notTCC

\* a failed Confirm phase returns its error without a Cancel phase
PhaseReturns_NoCancelAfterConfirm ==
  /\ tccPc \in {"Try", "Confirm"}
  /\ \A i \in Steps : gpc[i] = "exited"
  /\ IF errChan # <<>> /\ tccPc = "Try"
       THEN /\ phaseErr' = errChan[1]
            /\ BeginPhase("Cancel")
            /\ UNCHANGED tccResult
     ELSE IF errChan # <<>>
       THEN /\ tccPc' = "done"
            /\ tccResult' = TCCPhaseFailed(errChan[1])
            /\ UNCHANGED tccPhase
     ELSE IF tccPc = "Try"
       THEN /\ BeginPhase("Confirm")
            /\ UNCHANGED <<phaseErr, tccResult>>
     ELSE /\ tccPc' = "done"
          /\ tccResult' = TCCReturnNil
          /\ UNCHANGED tccPhase
  /\ UNCHANGED <<tccFn, ParallelBranches, MaxConcurrency, tccLog>>
  /\ UNCHANGED notTCC

\* a Try or Confirm phase returns: wg.Wait() is over and the first error of
\* errChan, if any, is returned (tcc.go:105-115, 167-177), or the sequential
\* loop is through (125, 187); ExecuteTCC goes on at tcc.go:34-47, 63-74
PhaseReturns ==
  /\ tccPc \in {"Try", "Confirm"}
  /\ \A i \in Steps : gpc[i] = "exited"
  /\ IF errChan # <<>>
       THEN /\ phaseErr' = errChan[1]
            /\ BeginPhase("Cancel")
            /\ UNCHANGED tccResult
     ELSE IF tccPc = "Try"
       THEN /\ BeginPhase("Confirm")
            /\ UNCHANGED <<phaseErr, tccResult>>
     ELSE /\ tccPc' = "done"
          /\ tccResult' = TCCReturnNil
          /\ UNCHANGED tccPhase
  /\ UNCHANGED <<tccFn, ParallelBranches, MaxConcurrency, tccLog>>
  /\ UNCHANGED notTCC

\* a goroutine of executeCancelPhase calls tx.Cancel, tcc.go:203-206
CancelCall(i) ==
  /\ tccPc = "Cancel"
  /\ gpc[i] = "spawned"
  /\ gpc' = [gpc EXCEPT ![i] = "flight"]
  /\ issued' = [issued EXCEPT !["Cancel"][i] = @ + 1]
  /\ UNCHANGED <<gerr, permits, errChan, phaseErr, failedCalls, tccCall>>
  /\ UNCHANGED notTCC

\* tx.Cancel returns, its error is dropped, wg.Done(), tcc.go:204-206
CancelReturns(i, err) ==
  /\ tccPc = "Cancel"
  /\ gpc[i] = "flight"
  /\ gpc' = [gpc EXCEPT ![i] = "exited"]
  /\ gerr' = [gerr EXCEPT ![i] = err]
  /\ failedCalls' = IF err = "error" THEN failedCalls \cup {<<"Cancel", i>>}
                    ELSE failedCalls
  /\ UNCHANGED <<permits, errChan, phaseErr, issued, tccCall>>
  /\ UNCHANGED notTCC

\* the Cancel phase returns without wg.Wait()
CancelPhaseReturns_NoWait ==
  /\ tccPc = "Cancel"
  /\ tccPc' = "done"
  /\ tccResult' = TCCPhaseFailed(phaseErr)
  /\ UNCHANGED <<tccFn, ParallelBranches, MaxConcurrency, tccPhase, tccLog>>
  /\ UNCHANGED notTCC

\* wg.Wait() of executeCancelPhase is over (tcc.go:210) and ExecuteTCC
\* returns the error of the failed phase, tcc.go:37, 44, 65, 71
CancelPhaseReturns ==
  /\ tccPc = "Cancel"
  /\ \A i \in Steps : gpc[i] = "exited"
  /\ tccPc' = "done"
  /\ tccResult' = TCCPhaseFailed(phaseErr)
  /\ UNCHANGED <<tccFn, ParallelBranches, MaxConcurrency, tccPhase, tccLog>>
  /\ UNCHANGED notTCC

\* a caller hands a workflow to ExecuteTCC or ExecuteTCCWithBarrier
InitTCCCall ==
  /\ mode = "tcc"
  /\ workflow \in {WorkflowOfTCC(n) : n \in 0..MaxBranches}
  /\ vErr = NotValidated
  /\ tccFn \in {"ExecuteTCC", "ExecuteTCCWithBarrier"}
  /\ ParallelBranches \in BOOLEAN
  /\ MaxConcurrency \in 0..MaxBranches
  /\ tccPc = "start"
  /\ tccResult = TCCRunning
  /\ NoTasks
  /\ NoCalls

InitTCC ==
  InitNoResilience /\ NewTransaction /\ InitTCCCall /\ InitNoSaga
    /\ InitNoClient

TryOrConfirmFails ==
  \E i \in Steps :
    BranchReturns(i, "error") \/ SequentialReturns(i, "error")
TryOrConfirmSucceeds ==
  \E i \in Steps : BranchReturns(i, "nil") \/ SequentialReturns(i, "nil")

NextTCC ==
  \/ TCCStartTransaction
  \/ \E i \in Steps : Acquire(i)
  \/ \E i \in Steps : SequentialCall(i)
  \/ TryOrConfirmFails
  \/ TryOrConfirmSucceeds
  \/ \E i \in Steps : Release(i)
  \/ PhaseReturns
  \/ \E i \in Steps : CancelCall(i)
  \/ \E i \in Steps, err \in CallErrors : CancelReturns(i, err)
  \/ CancelPhaseReturns

SpecTCC == InitTCC /\ [][NextTCC]_vars

\* the scheduling of an execution: every goroutine that can take a step is
\* run in the end, and every remote call returns
SpecTCCLive == SpecTCC /\ WF_vars(NextTCC)

---------------------------------------------------------------------------
(* SagaManager: ExecuteSaga and ExecuteSagaWithCompensation,               *)
(* saga.go:23-194, with the Transaction methods they call.                 *)

\* a request without a branch
Request(method, reply) == HandleCall(method, "", "", reply)

\* Transaction.Submit, transaction.go:68-88
Submit(reply) ==
  /\ txLog' = Append(txLog, Request("Submit", reply))
  /\ txErr' = IF reply = "200" THEN "nil" ELSE "failed to submit transaction"
  /\ UNCHANGED branches

Abort_DropsBranches(reply) ==
  /\ txLog' = Append(txLog, Request("Abort", reply))
  /\ txErr' = IF reply = "200" THEN "nil" ELSE "failed to abort transaction"
  /\ branches' = <<>>

\* Transaction.Abort, transaction.go:91-111
Abort(reply) ==
  /\ txLog' = Append(txLog, Request("Abort", reply))
  /\ txErr' = IF reply = "200" THEN "nil" ELSE "failed to abort transaction"
  /\ UNCHANGED branches

\* what Transaction.GetInfo hands back: an error, or the status of the
\* TransactionInfo, transaction.go:255-257 and client.go:211-230
InfoReplies == Statuses \cup {"error"}

\* the polling loop waits in its select (saga.go:90, 125) and no case is
\* ready. The first event that makes a case ready wakes the goroutine with
\* that case, so no other event reaches a select that has a ready case;
\* several cases are ready together only when they became ready before the
\* goroutine came (back) to the select.
Parked == spc = "poll" /\ ~sCtxDone /\ ~sTimedOut /\ ~tickReady

\* the caller cancels the context
SagaCancel ==
  /\ spc # "done"
  /\ spc = "poll" => Parked
  /\ ~sCtxDone
  /\ sCtxDone' = TRUE
  /\ UNCHANGED <<sagaFn, spc, sidx, sTimedOut, tickReady, polls, sagaResult>>
  /\ UNCHANGED <<compensation, handle>>
  /\ UNCHANGED notSaga

\* options.Timeout has passed since the timer was made, saga.go:86, 121
SagaTimerFires ==
  /\ spc = "getinfo" \/ Parked
  /\ ~sTimedOut
  /\ sTimedOut' = TRUE
  /\ UNCHANGED <<sagaFn, spc, sidx, sCtxDone, tickReady, polls, sagaResult>>
  /\ UNCHANGED <<compensation, handle>>
  /\ UNCHANGED notSaga

\* the ticker made at saga.go:83, 118 sends a tick: its channel holds one
\* tick at most
SagaTickerFires ==
  /\ spc = "getinfo" \/ Parked
  /\ ~tickReady
  /\ polls < MaxPolls
  /\ tickReady' = TRUE
  /\ UNCHANGED <<sagaFn, spc, sidx, sCtxDone, sTimedOut, polls, sagaResult>>
  /\ UNCHANGED <<compensation, handle>>
  /\ UNCHANGED notSaga

\* sm.client.StartTransaction returns, saga.go:29-32, 59-62
SagaStartTransaction ==
  /\ spc = "start"
  /\ \E reply \in Replies :
       /\ txLog' = Append(txLog, Request("StartTransaction", reply))
       /\ IF reply = "200"
            THEN /\ spc' = "addBranch"
                 /\ UNCHANGED sagaResult
          ELSE /\ spc' = "done"
               /\ sagaResult' =
                    SagaReturn("failed to start saga transaction", "", <<>>)
  /\ UNCHANGED <<sagaFn, sidx, sCtxDone, sTimedOut, tickReady, polls>>
  /\ UNCHANGED <<branches, txErr, compensation>>
  /\ UNCHANGED notSaga

\* one iteration of the AddBranch loop, saga.go:35-36, 65-66
SagaAddBranch ==
  /\ spc = "addBranch"
  /\ sidx <= Len(workflow)
  /\ \E reply \in Replies :
       /\ AddBranch(workflow[sidx].BranchID, workflow[sidx].Action, reply)
       /\ IF reply = "200"
            THEN /\ sidx' = sidx + 1
                 /\ UNCHANGED spc
          ELSE /\ spc' = "abort"
               /\ UNCHANGED sidx
  /\ UNCHANGED <<sagaFn, sCtxDone, sTimedOut, tickReady, polls, sagaResult>>
  /\ UNCHANGED compensation
  /\ UNCHANGED notSaga

\* the error of a failed tx.Abort is returned
SagaAbort_Escalate ==
  /\ spc = "abort"
  /\ \E reply \in Replies :
       /\ Abort(reply)
       /\ sagaResult' =
            IF reply = "200"
              THEN SagaReturn("failed to add branch",
                              workflow[sidx].BranchID, <<>>)
            ELSE SagaReturn("failed to abort transaction", "", <<>>)
  /\ spc' = "done"
  /\ UNCHANGED <<sagaFn, sidx, sCtxDone, sTimedOut, tickReady, polls>>
  /\ UNCHANGED compensation
  /\ UNCHANGED notSaga

\* tx.Abort(ctx) after a failed AddBranch, its result dropped, and the
\* return of the AddBranch error, saga.go:38-39, 68-69
SagaAbort ==
  /\ spc = "abort"
  /\ \E reply \in Replies : Abort(reply)
  /\ spc' = "done"
  /\ sagaResult' =
       SagaReturn("failed to add branch", workflow[sidx].BranchID, <<>>)
  /\ UNCHANGED <<sagaFn, sidx, sCtxDone, sTimedOut, tickReady, polls>>
  /\ UNCHANGED compensation
  /\ UNCHANGED notSaga

\* a failed tx.Submit is followed by the polling loop all the same
SagaSubmit_PollAnyway ==
  /\ spc = "addBranch"
  /\ sidx > Len(workflow)
  /\ \E reply \in Replies : Submit(reply)
  /\ spc' = "poll"
  /\ UNCHANGED <<sagaFn, sidx, sCtxDone, sTimedOut, tickReady, polls, sagaResult>>
  /\ UNCHANGED compensation
  /\ UNCHANGED notSaga

\* tx.Submit after the loop, saga.go:44-49, 73-78: on success the polling
\* loop is entered with a fresh ticker and timeout timer
SagaSubmit ==
  /\ spc = "addBranch"
  /\ sidx > Len(workflow)
  /\ \E reply \in Replies :
       /\ Submit(reply)
       /\ IF reply = "200"
            THEN /\ spc' = "poll"
                 /\ UNCHANGED sagaResult
          ELSE /\ spc' = "done"
               /\ sagaResult' =
                    SagaReturn("failed to submit saga transaction", "", <<>>)
  /\ UNCHANGED <<sagaFn, sidx, sCtxDone, sTimedOut, tickReady, polls>>
  /\ UNCHANGED compensation
  /\ UNCHANGED notSaga

\* case <-ctx.Done() of the polling select, saga.go:91-92, 126-127
SagaPollCancelled ==
  /\ spc = "poll"
  /\ sCtxDone
  /\ spc' = "done"
  /\ sagaResult' = SagaReturn("context canceled", "", <<>>)
  /\ UNCHANGED <<sagaFn, sidx, sCtxDone, sTimedOut, tickReady, polls>>
  /\ UNCHANGED <<compensation, handle>>
  /\ UNCHANGED notSaga

SagaPollTimeout_Conflated ==
  /\ spc = "poll"
  /\ sTimedOut
  /\ spc' = "done"
  /\ sagaResult' = SagaReturn("saga transaction aborted", "", <<>>)
  /\ UNCHANGED <<sagaFn, sidx, sCtxDone, sTimedOut, tickReady, polls>>
  /\ UNCHANGED <<compensation, handle>>
  /\ UNCHANGED notSaga

\* case <-timeout.C of the polling select, saga.go:93-94, 128-129
SagaPollTimeout ==
  /\ spc = "poll"
  /\ sTimedOut
  /\ spc' = "done"
  /\ sagaResult' = SagaReturn("saga execution timeout", "", <<>>)
  /\ UNCHANGED <<sagaFn, sidx, sCtxDone, sTimedOut, tickReady, polls>>
  /\ UNCHANGED <<compensation, handle>>
  /\ UNCHANGED notSaga

SagaPollTick_Overlapping ==
  /\ spc \in {"poll", "getinfo"}
  /\ tickReady
  /\ polls < MaxPolls
  /\ spc' = "getinfo"
  /\ tickReady' = FALSE
  /\ polls' = polls + 1
  /\ UNCHANGED <<sagaFn, sidx, sCtxDone, sTimedOut, sagaResult>>
  /\ UNCHANGED <<compensation, handle>>
  /\ UNCHANGED notSaga

\* case <-ticker.C of the polling select: tx.GetInfo is called, saga.go:95-96,
\* 130-131
SagaPollTick ==
  /\ spc = "poll"
  /\ tickReady
  /\ polls < MaxPolls
  /\ spc' = "getinfo"
  /\ tickReady' = FALSE
  /\ polls' = polls + 1
  /\ UNCHANGED <<sagaFn, sidx, sCtxDone, sTimedOut, sagaResult>>
  /\ UNCHANGED <<compensation, handle>>
  /\ UNCHANGED notSaga

\* the call of executeCompensation at saga.go:141 with info.Branches: its
\* loop starts at the last step, saga.go:153-157
BeginCompensation(report) ==
  /\ reported' = report
  /\ cidx' = Len(workflow)
  /\ UNCHANGED <<cpc, cerr, compErrs, compCount>>

\* the lists of branches a coordinator reports: the registered branches in
\* order, each with a status
CoordinatorReports ==
  {report \in [DOMAIN branches -> [BranchID : BranchIDs,
                                   Status : BranchStatuses]] :
     \A k \in DOMAIN branches : report[k].BranchID = branches[k].BranchID}

\* the status COMMITTED is handled like SUBMITTED
SagaGetInfoReturns_KeepPolling ==
  /\ spc = "getinfo"
  /\ \E reply \in InfoReplies :
       /\ txLog' = Append(txLog, Request("GetInfo", reply))
       /\ txErr' = IF reply = "error" THEN "failed to get transaction"
                   ELSE "nil"
       /\ \/ /\ reply = "error"
             /\ spc' = "done"
             /\ sagaResult' =
                  SagaReturn("failed to get transaction info", "", <<>>)
             /\ UNCHANGED compensation
          \/ /\ reply = StatusCommitted
             /\ spc' = "poll"
             /\ UNCHANGED <<sagaResult, compensation>>
          \/ /\ reply = StatusAborted
             /\ sagaFn = "ExecuteSaga"
             /\ spc' = "done"
             /\ sagaResult' = SagaReturn("saga transaction aborted", "", <<>>)
             /\ UNCHANGED compensation
          \/ /\ reply = StatusAborted
             /\ sagaFn = "ExecuteSagaWithCompensation"
             /\ \E report \in CoordinatorReports : BeginCompensation(report)
             /\ spc' = "compensate"
             /\ UNCHANGED sagaResult
          \/ /\ reply = StatusSubmitted
             /\ spc' = "poll"
             /\ UNCHANGED <<sagaResult, compensation>>
          \/ /\ reply \notin {"error", StatusCommitted, StatusAborted,
                               StatusSubmitted}
             /\ spc' = "done"
             /\ sagaResult' =
                  SagaReturn("unknown transaction status", "", <<>>)
             /\ UNCHANGED compensation
  /\ UNCHANGED <<sagaFn, sidx, sCtxDone, sTimedOut, tickReady, polls, branches>>
  /\ UNCHANGED notSaga

SagaGetInfoReturns_AlwaysCompensate ==
  /\ spc = "getinfo"
  /\ \E reply \in InfoReplies :
       /\ txLog' = Append(txLog, Request("GetInfo", reply))
       /\ txErr' = IF reply = "error" THEN "failed to get transaction"
                   ELSE "nil"
       /\ \/ /\ reply = "error"
             /\ spc' = "done"
             /\ sagaResult' =
                  SagaReturn("failed to get transaction info", "", <<>>)
             /\ UNCHANGED compensation
          \/ /\ reply = StatusCommitted
             /\ spc' = "done"
             /\ sagaResult' = SagaReturnNil
             /\ UNCHANGED compensation
          \/ /\ reply = StatusAborted
             /\ \E report \in CoordinatorReports : BeginCompensation(report)
             /\ spc' = "compensate"
             /\ UNCHANGED sagaResult
          \/ /\ reply = StatusSubmitted
             /\ spc' = "poll"
             /\ UNCHANGED <<sagaResult, compensation>>
          \/ /\ reply \notin {"error", StatusCommitted, StatusAborted,
                               StatusSubmitted}
             /\ spc' = "done"
             /\ sagaResult' =
                  SagaReturn("unknown transaction status", "", <<>>)
             /\ UNCHANGED compensation
  /\ UNCHANGED <<sagaFn, sidx, sCtxDone, sTimedOut, tickReady, polls, branches>>
  /\ UNCHANGED notSaga

\* a failed GetInfo is followed by the next poll
SagaGetInfoReturns_RetryOnError ==
  /\ spc = "getinfo"
  /\ \E reply \in InfoReplies :
       /\ txLog' = Append(txLog, Request("GetInfo", reply))
       /\ txErr' = IF reply = "error" THEN "failed to get transaction"
                   ELSE "nil"
       /\ \/ /\ reply = "error"
             /\ spc' = "poll"
             /\ UNCHANGED <<sagaResult, compensation>>
          \/ /\ reply = StatusCommitted
             /\ spc' = "done"
             /\ sagaResult' = SagaReturnNil
             /\ UNCHANGED compensation
          \/ /\ reply = StatusAborted
             /\ sagaFn = "ExecuteSaga"
             /\ spc' = "done"
             /\ sagaResult' = SagaReturn("saga transaction aborted", "", <<>>)
             /\ UNCHANGED compensation
          \/ /\ reply = StatusAborted
             /\ sagaFn = "ExecuteSagaWithCompensation"
             /\ \E report \in CoordinatorReports : BeginCompensation(report)
             /\ spc' = "compensate"
             /\ UNCHANGED sagaResult
          \/ /\ reply = StatusSubmitted
             /\ spc' = "poll"
             /\ UNCHANGED <<sagaResult, compensation>>
          \/ /\ reply \notin {"error", StatusCommitted, StatusAborted,
                               StatusSubmitted}
             /\ spc' = "done"
             /\ sagaResult' =
                  SagaReturn("unknown transaction status", "", <<>>)
             /\ UNCHANGED compensation
  /\ UNCHANGED <<sagaFn, sidx, sCtxDone, sTimedOut, tickReady, polls, branches>>
  /\ UNCHANGED notSaga

\* tx.GetInfo returns and the switch on info.Status, saga.go:96-111,
\* 131-146
SagaGetInfoReturns ==
  /\ spc = "getinfo"
  /\ \E reply \in InfoReplies :
       /\ txLog' = Append(txLog, Request("GetInfo", reply))
       /\ txErr' = IF reply = "error" THEN "failed to get transaction"
                   ELSE "nil"
       /\ \/ /\ reply = "error"
             /\ spc' = "done"
             /\ sagaResult' =
                  SagaReturn("failed to get transaction info", "", <<>>)
             /\ UNCHANGED compensation
          \/ /\ reply = StatusCommitted
             /\ spc' = "done"
             /\ sagaResult' = SagaReturnNil
             /\ UNCHANGED compensation
          \/ /\ reply = StatusAborted
             /\ sagaFn = "ExecuteSaga"
             /\ spc' = "done"
             /\ sagaResult' = SagaReturn("saga transaction aborted", "", <<>>)
             /\ UNCHANGED compensation
          \/ /\ reply = StatusAborted
             /\ sagaFn = "ExecuteSagaWithCompensation"
             /\ \E report \in CoordinatorReports : BeginCompensation(report)
             /\ spc' = "compensate"
             /\ UNCHANGED sagaResult
          \/ /\ reply = StatusSubmitted
             /\ spc' = "poll"
             /\ UNCHANGED <<sagaResult, compensation>>
          \/ /\ reply \notin {"error", StatusCommitted, StatusAborted,
                               StatusSubmitted}
             /\ spc' = "done"
             /\ sagaResult' =
                  SagaReturn("unknown transaction status", "", <<>>)
             /\ UNCHANGED compensation
  /\ UNCHANGED <<sagaFn, sidx, sCtxDone, sTimedOut, tickReady, polls, branches>>
  /\ UNCHANGED notSaga

BranchFailed_AnyStatus(step, report) ==
  \E k \in DOMAIN report : report[k].BranchID = step.BranchID

\* the inner loop of executeCompensation, saga.go:161-167
BranchFailed(step, report) ==
  \E k \in DOMAIN report :
    /\ report[k].BranchID = step.BranchID
    /\ report[k].Status = BranchStatusFailed

\* one iteration of the loop of executeCompensation, saga.go:157-178: a
\* goroutine is started for the step if its branch failed
CompensationScan ==
  /\ spc = "compensate"
  /\ cidx >= 1
  /\ cpc' = IF BranchFailed(workflow[cidx], reported)
              THEN [cpc EXCEPT ![cidx] = "spawned"]
            ELSE cpc
  /\ cidx' = cidx - 1
  /\ UNCHANGED <<reported, cerr, compErrs, compCount, sagaCall, handle>>
  /\ UNCHANGED notSaga

\* a compensation goroutine calls compensationFunc, saga.go:170-172
CompensationCall(i) ==
  /\ spc = "compensate"
  /\ cpc[i] = "spawned"
  /\ cpc' = [cpc EXCEPT ![i] = "running"]
  /\ compCount' = [compCount EXCEPT ![i] = @ + 1]
  /\ UNCHANGED <<reported, cidx, cerr, compErrs, sagaCall, handle>>
  /\ UNCHANGED notSaga

\* compensationFunc returns, saga.go:172-174, and wg.Done()
CompensationReturns(i, err) ==
  /\ spc = "compensate"
  /\ cpc[i] = "running"
  /\ cpc' = [cpc EXCEPT ![i] = "done"]
  /\ cerr' = [cerr EXCEPT ![i] = err]
  /\ compErrs' = IF err = "error" THEN Append(compErrs, i) ELSE compErrs
  /\ UNCHANGED <<reported, cidx, compCount, sagaCall, handle>>
  /\ UNCHANGED notSaga

\* wg.Wait() is over and the errors of errChan are returned as one,
\* saga.go:180-193
CompensationWaitReturns_FirstErrorOnly ==
  /\ spc = "compensate"
  /\ cidx = 0
  /\ \A i \in Steps : cpc[i] \in {"idle", "done"}
  /\ spc' = "done"
  /\ sagaResult' = IF compErrs = <<>> THEN SagaReturnNil
                   ELSE SagaReturn("compensation failed", "", <<compErrs[1]>>)
  /\ UNCHANGED <<sagaFn, sidx, sCtxDone, sTimedOut, tickReady, polls>>
  /\ UNCHANGED <<compensation, handle>>
  /\ UNCHANGED notSaga

CompensationWaitReturns ==
  /\ spc = "compensate"
  /\ cidx = 0
  /\ \A i \in Steps : cpc[i] \in {"idle", "done"}
  /\ spc' = "done"
  /\ sagaResult' = IF compErrs = <<>> THEN SagaReturnNil
                   ELSE SagaReturn("compensation failed", "", compErrs)
  /\ UNCHANGED <<sagaFn, sidx, sCtxDone, sTimedOut, tickReady, polls>>
  /\ UNCHANGED <<compensation, handle>>
  /\ UNCHANGED notSaga

\* a caller hands a workflow to ExecuteSaga or ExecuteSagaWithCompensation
InitSagaCall ==
  /\ mode = "saga"
  /\ workflow \in SeqUpTo(SagaCallSteps, MaxSagaSteps)
  /\ vErr = NotValidated
  /\ sagaFn \in {"ExecuteSaga", "ExecuteSagaWithCompensation"}
  /\ spc = "start"
  /\ sidx = 1
  /\ sCtxDone = FALSE
  /\ sTimedOut = FALSE
  /\ tickReady = FALSE
  /\ polls = 0
  /\ sagaResult = SagaRunning
  /\ NoCompensation

InitSaga ==
  InitNoResilience /\ NewTransaction /\ InitSagaCall
    /\ InitNoTCC /\ InitNoClient

NextSaga ==
  \/ SagaCancel
  \/ SagaTimerFires
  \/ SagaTickerFires
  \/ SagaStartTransaction
  \/ SagaAddBranch
  \/ SagaAbort
  \/ SagaSubmit
  \/ SagaPollCancelled
  \/ SagaPollTimeout
  \/ SagaPollTick
  \/ SagaGetInfoReturns
  \/ CompensationScan
  \/ \E i \in Steps : CompensationCall(i)
  \/ \E i \in Steps, err \in CallErrors : CompensationReturns(i, err)
  \/ CompensationWaitReturns

SpecSaga == InitSaga /\ [][NextSaga]_vars

\* the scheduling of the polling loop: a timer made by time.NewTimer fires
\* once options.Timeout has passed, whatever the loop is doing; a select with
\* several ready cases picks each of them with equal probability, so a ready
\* case is not passed over for ever; a tick received is followed by the call
\* of tx.GetInfo, and the call returns
SpecSagaLive ==
  /\ SpecSaga
  /\ SF_vars(SagaTimerFires)
  /\ SF_vars(SagaPollTimeout)
  /\ WF_vars(SagaPollTick)
  /\ WF_vars(SagaGetInfoReturns)

---------------------------------------------------------------------------
(* executeCompensation on its own, saga.go:152-194: the workflows and      *)
(* branch lists it is called with after a poll of                          *)
(* ExecuteSagaWithCompensation has read the status ABORTED.                *)

\* the workflow of n steps with pairwise distinct branch IDs
WorkflowOfSaga(n) ==
  [i \in 1..n |->
    [BranchID |-> BranchNames[i], Action |-> "act", Compensate |-> "comp"]]

\* info.Branches: up to MaxCompSteps branches in any order, each with the ID
\* of a step or of no step and the status SUCCEED or FAILED
ReportedBranches ==
  SeqUpTo([BranchID : {BranchNames[i] : i \in 1..MaxCompSteps},
           Status : {BranchStatusSucceed, BranchStatusFailed}],
          MaxCompSteps)

\* the requests of an execution whose first poll read ABORTED
RequestsUntilAborted ==
  <<Request("StartTransaction", "200")>>
    \o [i \in Steps |->
         HandleCall("AddBranch", workflow[i].BranchID, workflow[i].Action,
                    "200")]
    \o <<Request("Submit", "200"), Request("GetInfo", StatusAborted)>>

InitCompensation ==
  /\ InitNoResilience
  /\ InitNoClient
  /\ mode = "saga"
  /\ workflow \in {WorkflowOfSaga(n) : n \in 0..MaxCompSteps}
  /\ vErr = NotValidated
  /\ InitNoTCC
  /\ branches =
       [i \in Steps |-> Branch(workflow[i].BranchID, workflow[i].Action)]
  /\ txLog = RequestsUntilAborted
  /\ txErr = "nil"
  /\ sagaFn = "ExecuteSagaWithCompensation"
  /\ spc = "compensate"
  /\ sidx = Len(workflow) + 1
  /\ sCtxDone = FALSE
  /\ sTimedOut = FALSE
  /\ tickReady = FALSE
  /\ polls = 1
  /\ sagaResult = SagaRunning
  /\ reported \in ReportedBranches
  /\ cidx = Len(workflow)
  /\ cpc = [i \in Steps |-> "idle"]
  /\ cerr = [i \in Steps |-> "none"]
  /\ compErrs = <<>>
  /\ compCount = [i \in Steps |-> 0]

CompensationFails == \E i \in Steps : CompensationReturns(i, "error")
CompensationSucceeds == \E i \in Steps : CompensationReturns(i, "nil")

NextCompensation ==
  \/ CompensationScan
  \/ \E i \in Steps : CompensationCall(i)
  \/ CompensationFails
  \/ CompensationSucceeds
  \/ CompensationWaitReturns

SpecCompensation == InitCompensation /\ [][NextCompensation]_vars

---------------------------------------------------------------------------
(* The methods of a Transaction, transaction.go:37-257, called one at a    *)
(* time on a client made by NewClient, client.go:80-125.                   *)

\* what the methods of a handle leave alone
notMethods ==
  <<cbConfig, cbFields, now, cbCaller, cbTasks, MaxRetries, retryCall,
    retryLog, definition, tccCall, tccPhase, tccLog, sagaCall, compensation,
    backoff>>

\* the HTTP attempts of one request of a client made with
\* SetRetryCount(n), client.go:89: the request is sent again while an
\* attempt ends without a response and fewer than n repeats were made; a
\* response of any status ends the request
Attempts(n) ==
  {s \in SeqUpTo(Replies, n + 1) :
     /\ Len(s) >= 1
     /\ \A k \in 1..(Len(s) - 1) : s[k] = "error"
     /\ s[Len(s)] = "error" => Len(s) = n + 1}

\* resp, err of a request: those of its last attempt
Response(outcomes) == outcomes[Len(outcomes)]

\* Transaction.Try, transaction.go:131-156
TransactionTry(branchID, action, reply) ==
  /\ txLog' = Append(txLog, HandleCall("Try", branchID, action, reply))
  /\ txErr' = IF reply = "error" THEN "failed to execute try phase"
              ELSE IF reply # "200" THEN "failed to execute try phase: status"
              ELSE "nil"
  /\ UNCHANGED branches

\* Transaction.Confirm, Cancel, BranchSucceed and BranchFail,
\* transaction.go:159-252: the same code but for the URL and the message
BranchRequest(method, branchID, reply) ==
  /\ txLog' = Append(txLog, HandleCall(method, branchID, "", reply))
  /\ txErr' = IF reply = "200" THEN "nil" ELSE "failed"
  /\ UNCHANGED branches

\* Transaction.GetInfo, transaction.go:255-257, and Client.GetTransaction,
\* client.go:211-230
GetInfo(reply) ==
  /\ txLog' = Append(txLog, Request("GetInfo", reply))
  /\ txErr' = IF reply = "200" THEN "nil" ELSE "failed to get transaction"
  /\ UNCHANGED branches

\* the branch IDs the callers of a handle use
CallerBranchIDs == {"a", "b"}

\* the request of one call of a method with all its attempts; the handling
\* of the response is the method's
MethodCall(outcomes) ==
  /\ Len(txLog) < MaxMethodCalls
  /\ sends' = outcomes
  /\ UNCHANGED <<txFields, RetryCount, sharers>>
  /\ UNCHANGED notMethods

AddBranchMethod ==
  \E branchID \in CallerBranchIDs, outcomes \in Attempts(RetryCount) :
    MethodCall(outcomes) /\ AddBranch(branchID, "act", Response(outcomes))
SubmitMethod ==
  \E outcomes \in Attempts(RetryCount) :
    MethodCall(outcomes) /\ Submit(Response(outcomes))
AbortMethod ==
  \E outcomes \in Attempts(RetryCount) :
    MethodCall(outcomes) /\ Abort(Response(outcomes))
TryMethod ==
  \E branchID \in CallerBranchIDs, outcomes \in Attempts(RetryCount) :
    MethodCall(outcomes)
      /\ TransactionTry(branchID, "try", Response(outcomes))
ConfirmMethod ==
  \E outcomes \in Attempts(RetryCount) :
    MethodCall(outcomes) /\ BranchRequest("Confirm", "a", Response(outcomes))
CancelMethod ==
  \E outcomes \in Attempts(RetryCount) :
    MethodCall(outcomes) /\ BranchRequest("Cancel", "a", Response(outcomes))
BranchSucceedMethod ==
  \E outcomes \in Attempts(RetryCount) :
    MethodCall(outcomes)
      /\ BranchRequest("BranchSucceed", "a", Response(outcomes))
BranchFailMethod ==
  \E outcomes \in Attempts(RetryCount) :
    MethodCall(outcomes)
      /\ BranchRequest("BranchFail", "a", Response(outcomes))
GetInfoMethod ==
  \E outcomes \in Attempts(RetryCount) :
    MethodCall(outcomes) /\ GetInfo(Response(outcomes))

\* a handle as StartTransaction returns it, client.go:180-186, on a client
\* made from a Config with MaxRetries of 0 or more
InitMethods ==
  /\ InitNoResilience
  /\ InitNoDefinition
  /\ InitNoTCC
  /\ InitNoSaga
  /\ NewTransaction
  /\ gid = "gid"
  /\ txMode \in {"saga", "tcc"}
  /\ payload = "payload"
  /\ RetryCount \in 0..MaxRetryCount
  /\ sends = <<>>
  /\ apc = [t \in Tasks |-> "idle"]
  /\ aheld = [t \in Tasks |-> <<>>]

NextMethods ==
  \/ AddBranchMethod
  \/ SubmitMethod
  \/ AbortMethod
  \/ TryMethod
  \/ ConfirmMethod
  \/ CancelMethod
  \/ BranchSucceedMethod
  \/ BranchFailMethod
  \/ GetInfoMethod

SpecMethods == InitMethods /\ [][NextMethods]_vars

---------------------------------------------------------------------------
(* Several tasks call AddBranch on one Transaction.  The struct            *)
(* (transaction.go:10-16) holds no lock and AddBranch takes none, so the   *)
(* load of tx.branches by append and the store of its result               *)
(* (transaction.go:59-62) are separate steps of each task.                 *)

\* the branch a task registers
BranchOf(t) == Branch(BranchNames[t], "act")

\* the request of task t is answered, transaction.go:44-56
SharedAddBranchResponse(t) ==
  /\ apc[t] = "idle"
  /\ \E reply \in Replies :
       /\ txLog' = Append(txLog, HandleCall("AddBranch", BranchNames[t],
                                            "act", reply))
       /\ txErr' = IF reply = "error" THEN "failed to add branch"
                   ELSE IF reply # "200" THEN "failed to add branch: status"
                   ELSE "nil"
       /\ apc' = [apc EXCEPT ![t] = IF reply = "200" THEN "append"
                                    ELSE "done"]
  /\ UNCHANGED <<branches, aheld, txFields, transport>>
  /\ UNCHANGED notMethods

\* append reads tx.branches, transaction.go:59
SharedAddBranchLoad(t) ==
  /\ apc[t] = "append"
  /\ aheld' = [aheld EXCEPT ![t] = branches]
  /\ apc' = [apc EXCEPT ![t] = "store"]
  /\ UNCHANGED <<handle, txFields, transport>>
  /\ UNCHANGED notMethods

\* the result of append is assigned to tx.branches, transaction.go:59-62
SharedAddBranchStore(t) ==
  /\ apc[t] = "store"
  /\ branches' = Append(aheld[t], BranchOf(t))
  /\ apc' = [apc EXCEPT ![t] = "done"]
  /\ UNCHANGED <<txLog, txErr, aheld, txFields, transport>>
  /\ UNCHANGED notMethods

\* the branch registered before the tasks start, if any
EarlierBranch == Branch("d", "act")

\* a handle of either mode, fresh or with one branch registered, and the
\* tasks about to call AddBranch
InitHandleShared ==
  /\ InitNoResilience
  /\ InitNoDefinition
  /\ InitNoTCC
  /\ InitNoSaga
  /\ \/ NewTransaction
     \/ /\ branches = <<EarlierBranch>>
        /\ txLog = <<HandleCall("AddBranch", "d", "act", "200")>>
        /\ txErr = "nil"
  /\ gid = "gid"
  /\ txMode \in {"saga", "tcc"}
  /\ payload = "payload"
  /\ RetryCount = 0
  /\ sends = <<>>
  /\ apc = [t \in Tasks |-> "idle"]
  /\ aheld = [t \in Tasks |-> <<>>]

NextHandleShared ==
  \/ \E t \in Tasks : SharedAddBranchResponse(t)
  \/ \E t \in Tasks : SharedAddBranchLoad(t)
  \/ \E t \in Tasks : SharedAddBranchStore(t)

SpecHandleShared == InitHandleShared /\ [][NextHandleShared]_vars

---------------------------------------------------------------------------
(* Properties of the CircuitBreaker.                                       *)

\* C1: counted from a breaker that is Closed with failure count 0, after
\* FailureThreshold consecutive failed Execute calls the breaker is Open and
\* after fewer it is Closed; an Execute call made while the breaker is Open
\* and the time since the last recorded failure does not exceed
\* RecoveryTimeout returns the circuit-open error, does not invoke the
\* operation and changes neither state, failure count nor last-failure time.
C1_OpensAtThreshold ==
  /\ [](cbPc = "idle" =>
          /\ (streak < FailureThreshold => state = CircuitBreakerClosed)
          /\ (streak >= 1 /\ streak >= FailureThreshold
                => state = CircuitBreakerOpen))
  /\ [][(/\ ExecuteCall
          /\ state = CircuitBreakerOpen
          /\ TimeSince(lastFailureTime) <= RecoveryTimeout)
         => /\ cbResult' = "circuit breaker is open"
            /\ cbInvoked' = 0
            /\ cbPc' = "idle"
            /\ UNCHANGED cbFields]_vars

\* C1 witness: exactly FailureThreshold (at least 2) failures in a row opened
\* the breaker and the following Execute was rejected.
C1_Witness ==
  /\ cbCall = "Reject"
  /\ FailureThreshold >= 2
  /\ streak = FailureThreshold
  /\ state = CircuitBreakerOpen

\* C2: an Execute call that finds the breaker Open more than RecoveryTimeout
\* after the last recorded failure sets it HalfOpen and invokes the
\* operation; if that operation succeeds the breaker ends Closed with
\* failure count 0 and Execute returns nil.
C2_RecoveryAfterTimeout ==
  /\ [][(/\ ExecuteCall
          /\ state = CircuitBreakerOpen
          /\ TimeSince(lastFailureTime) > RecoveryTimeout)
         => /\ state' = CircuitBreakerHalfOpen
            /\ cbPc' = "op"
            /\ cbInvoked' = 1]_vars
  /\ [][(OperationSucceeds /\ state = CircuitBreakerHalfOpen)
         => /\ state' = CircuitBreakerClosed
            /\ failureCount' = 0
            /\ cbResult' = "nil"]_vars

\* C2 witness: the operation admitted in HalfOpen has succeeded.
C2_Witness ==
  /\ cbCall = "ReturnNil"
  /\ cbFrom = CircuitBreakerHalfOpen
  /\ state = CircuitBreakerClosed
  /\ failureCount = 0

\* C3: when the operation admitted in HalfOpen fails, the breaker is Open
\* again, the failure count is one higher and the last-failure time is the
\* time of that failure.
C3_HalfOpenFailureReopens ==
  [][(OperationFails /\ state = CircuitBreakerHalfOpen)
     => /\ state' = CircuitBreakerOpen
        /\ failureCount' = failureCount + 1
        /\ lastFailureTime' = now
        /\ cbResult' = "err"]_vars

\* C3 witness: the operation admitted in HalfOpen has failed, later than the
\* failure that had opened the breaker.
C3_Witness ==
  /\ cbCall = "ReturnErr"
  /\ cbFrom = CircuitBreakerHalfOpen
  /\ lastFailureTime = now
  /\ now > 0

\* C4: Reset leaves the breaker Closed with failure count 0 whatever state
\* and count it finds, and the Execute call that follows a Reset invokes its
\* operation.
C4_ResetCloses ==
  /\ [][(Reset \/ ResetInFlight)
         => (state' = CircuitBreakerClosed /\ failureCount' = 0)]_vars
  /\ [][(ExecuteCall /\ cbCall = "Reset")
         => (cbPc' = "op" /\ cbInvoked' = 1)]_vars

\* C4 witness: Reset was called while the breaker was HalfOpen with a
\* positive failure count.
C4_Witness ==
  /\ cbCall = "Reset"
  /\ cbFrom = CircuitBreakerHalfOpen
  /\ streak = 0
  /\ state = CircuitBreakerClosed
  /\ failureCount = 0

\* C5: with several tasks calling Execute on one breaker no failure
\* increment is lost (the failure count is the one a breaker with mutually
\* exclusive recordings holds) and, while no Execute call is in flight, the
\* state is Closed or Open, never HalfOpen.
C5_MutationsExcludeEachOther ==
  /\ failureCount = serialCount
  /\ ((\A t \in Tasks : tpc[t] = "idle")
        => state \in {CircuitBreakerClosed, CircuitBreakerOpen})

\* C5, second half alone: the breaker is never left HalfOpen.
C5_NeverRestsHalfOpen ==
  (\A t \in Tasks : tpc[t] = "idle")
    => state \in {CircuitBreakerClosed, CircuitBreakerOpen}

---------------------------------------------------------------------------
(* Properties of the RetryManager.                                         *)

\* the operation fails at its first k invocations and succeeds at the next
FailsThenSucceeds(k) ==
  /\ \A i \in 1..k : script[i] = "opErr"
  /\ script[k + 1] = "ok"

\* the operation fails whenever it is invoked
AlwaysFails == \A i \in DOMAIN script : script[i] = "opErr"

\* the backoff waits of a call that made n attempts: one after each attempt
\* but the last, computed from that attempt's index
WaitsBetween(n) == [i \in 1..(n - 1) |-> i - 1]

\* C6: for every k in 0..MaxRetries, when the operation fails at its first k
\* invocations and then succeeds and the context is never cancelled,
\* ExecuteWithRetry returns nil having invoked the operation exactly k+1
\* times; at no time has it invoked the operation more often than that.
C6_SucceedsAfterKFailures ==
  fn = "ExecuteWithRetry" =>
    \A k \in 0..MaxRetries :
      FailsThenSucceeds(k) =>
        /\ invocations <= k + 1
        /\ (rpc = "done" /\ cancelledAt = "never"
              => rResult = ReturnNil /\ invocations = k + 1)

\* C6 witness: the operation failed MaxRetries (at least 2) times and
\* succeeded on the last attempt allowed.
C6_Witness ==
  /\ fn = "ExecuteWithRetry"
  /\ rpc = "done"
  /\ cancelledAt = "never"
  /\ MaxRetries >= 2
  /\ FailsThenSucceeds(MaxRetries)
  /\ invocations = MaxRetries + 1

\* C7: when the operation always fails and the context is never cancelled,
\* ExecuteWithRetry has invoked it exactly MaxRetries+1 times, has waited
\* exactly MaxRetries times (once after each attempt but the last) and
\* returns the exhausted-retries error wrapping the error of the last
\* invocation.
C7_ExhaustedAfterAllAttempts ==
  (fn = "ExecuteWithRetry" /\ rpc = "done" /\ cancelledAt = "never"
     /\ AlwaysFails)
    => /\ invocations = MaxRetries + 1
       /\ Len(waits) = MaxRetries
       /\ waits = WaitsBetween(MaxRetries + 1)
       /\ rResult = ReturnExhausted(OperationError(MaxRetries + 1))

\* C7 witness: a call with MaxRetries >= 1 ran out of attempts.
C7_Witness ==
  /\ fn = "ExecuteWithRetry"
  /\ rpc = "done"
  /\ cancelledAt = "never"
  /\ AlwaysFails
  /\ MaxRetries >= 1
  /\ rResult.kind = "exhausted"

\* C8: whenever ExecuteWithRetry is about to start an attempt (the first one
\* included) and the context is cancelled, it does not invoke the operation
\* and returns the context's error, not the exhausted-retries error.
C8_ContextCheckedBeforeEachAttempt ==
  [][(fn = "ExecuteWithRetry" /\ rpc = "head" /\ ctxDone)
     => /\ invocations' = invocations
        /\ rpc' = "done"
        /\ rResult' = ReturnCtxErr("head")]_vars

\* C8 witness: the check before a later attempt found the context cancelled.
C8_Witness ==
  /\ fn = "ExecuteWithRetry"
  /\ rpc = "done"
  /\ rResult = ReturnCtxErr("head")
  /\ invocations >= 1

\* C9: when the context is cancelled during a backoff wait of
\* ExecuteWithRetry, the wait can end at once with the context's error, the
\* operation is not invoked again, and whichever way the wait ends the call
\* returns the context's error.
C9_CancelDuringWait ==
  /\ (fn = "ExecuteWithRetry" /\ rpc = "wait" /\ ctxDone)
       => ENABLED RetryWaitCancelled
  /\ (fn = "ExecuteWithRetry" /\ cancelledAt = "wait")
       => /\ invocations = invAtCancel
          /\ (rpc = "done" => rResult.kind = "ctx")

\* C9 witness: a wait was cut short by the cancellation.
C9_Witness ==
  /\ fn = "ExecuteWithRetry"
  /\ cancelledAt = "wait"
  /\ rpc = "done"
  /\ rResult = ReturnCtxErr("wait")
  /\ invocations >= 1

\* the attempts at which operation and validator both succeed
GoodAttempts == {i \in 1..(MaxRetries + 1) : script[i] = "ok"}
\* the error attempt i ends with, from whichever of the two failed
AttemptError(i) ==
  IF script[i] = "opErr" THEN OperationError(i) ELSE ValidatorError(i)

\* C10: in ExecuteWithRetryAndValidation with a validator, an attempt whose
\* validator fails counts like one whose operation fails: the call (when the
\* context is never cancelled) ends at the first attempt at which both
\* succeed, returning nil, or after MaxRetries+1 attempts with the
\* exhausted-retries error wrapping the last attempt's error, the
\* validator's if that is what failed; one backoff wait follows every
\* attempt but the last made; the validator runs only after a successful
\* operation; nil is returned only from an attempt at which both succeed.
C10_ValidatorFailureIsAttemptFailure ==
  (fn = "ExecuteWithRetryAndValidation" /\ ~validatorNil /\ rpc = "done")
    => /\ (rResult.kind = "nil" => script[invocations] = "ok")
       /\ cancelledAt = "never" =>
            /\ IF GoodAttempts # {}
                 THEN /\ invocations \in GoodAttempts
                      /\ \A i \in GoodAttempts : invocations <= i
                      /\ rResult = ReturnNil
                 ELSE /\ invocations = MaxRetries + 1
                      /\ rResult
                           = ReturnExhausted(AttemptError(MaxRetries + 1))
            /\ waits = WaitsBetween(invocations)
            /\ validations
                 = Cardinality({i \in 1..invocations : script[i] # "opErr"})

\* C10 witness: validator and operation failures alternated until the
\* attempts ran out, the last failure being the validator's.
C10_Witness ==
  /\ fn = "ExecuteWithRetryAndValidation"
  /\ ~validatorNil
  /\ rpc = "done"
  /\ cancelledAt = "never"
  /\ MaxRetries >= 2
  /\ script[1] = "valErr"
  /\ script[2] = "opErr"
  /\ rResult = ReturnExhausted(ValidatorError(MaxRetries + 1))

---------------------------------------------------------------------------
(* Properties of workflow validation.                                      *)

\* the required fields of step i are all set
RequiredFieldsSet(i) ==
  /\ workflow[i].BranchID # ""
  /\ IF mode = "saga" THEN workflow[i].Action # ""
     ELSE /\ workflow[i].Try # ""
          /\ workflow[i].Confirm # ""
          /\ workflow[i].Cancel # ""

\* at least one step, pairwise distinct branch IDs, no empty required field
WellFormed ==
  /\ Len(workflow) >= 1
  /\ \A i, j \in DOMAIN workflow :
       i # j => workflow[i].BranchID # workflow[j].BranchID
  /\ \A i \in DOMAIN workflow : RequiredFieldsSet(i)

\* the violation an error names is one the workflow has
NamesViolation(err) ==
  \/ /\ err.msg = "saga workflow must have at least one step"
     /\ mode = "saga" /\ workflow = <<>>
  \/ /\ err.msg = "TCC workflow must have at least one step"
     /\ mode = "tcc" /\ workflow = <<>>
  \/ /\ err.msg = "branch ID cannot be empty"
     /\ \E i \in DOMAIN workflow : workflow[i].BranchID = ""
  \/ /\ err.msg = "action cannot be empty"
     /\ mode = "saga"
     /\ \E i \in DOMAIN workflow : workflow[i].Action = ""
  \/ /\ err.msg = "try action cannot be empty"
     /\ mode = "tcc"
     /\ \E i \in DOMAIN workflow : workflow[i].Try = ""
  \/ /\ err.msg = "confirm action cannot be empty"
     /\ mode = "tcc"
     /\ \E i \in DOMAIN workflow : workflow[i].Confirm = ""
  \/ /\ err.msg = "cancel action cannot be empty"
     /\ mode = "tcc"
     /\ \E i \in DOMAIN workflow : workflow[i].Cancel = ""
  \/ /\ err.msg = "duplicate branch ID"
     /\ err.id # ""
     /\ \E i, j \in DOMAIN workflow :
          /\ i # j
          /\ workflow[i].BranchID = err.id
          /\ workflow[j].BranchID = err.id

\* C11: Validate of either kind of workflow returns nil exactly when the
\* workflow has at least one step, pairwise distinct branch IDs and no empty
\* required field (Compensate may be empty), and otherwise an error naming a
\* violation the workflow has.
C11_ValidateAcceptsExactlyWellFormed ==
  vErr # NotValidated =>
    /\ (vErr = NoValidationError) <=> WellFormed
    /\ vErr # NoValidationError => NamesViolation(vErr)

\* Validate rejected a workflow of two steps for its duplicate branch ID and
\* accepted steps with an empty Compensate
C11_Witness ==
  /\ mode = "saga"
  /\ Len(workflow) = 2
  /\ workflow[1].Compensate = ""
  /\ vErr = ValidationError("duplicate branch ID", "a")

---------------------------------------------------------------------------
(* Properties of the Transaction handle.                                   *)

\* the branches of the AddBranch calls the coordinator accepted, in the
\* order the calls were issued
RECURSIVE Registered(_)
Registered(log) ==
  IF log = <<>> THEN <<>>
  ELSE IF log[Len(log)].method = "AddBranch" /\ log[Len(log)].reply = "200"
    THEN Append(Registered(SubSeq(log, 1, Len(log) - 1)),
                Branch(log[Len(log)].BranchID, log[Len(log)].Action))
  ELSE Registered(SubSeq(log, 1, Len(log) - 1))

\* C13: after any sequence of AddBranch calls the local branch list is the
\* list of the branches the coordinator accepted, in the order the calls were
\* issued: an accepted call appended one branch at the end, a call that
\* failed (no response or a status other than 200) appended nothing.
C13_BranchListIsAcceptedCalls ==
  /\ branches = Registered(txLog)
  /\ txLog # <<>> =>
       (txErr = "nil") <=> (txLog[Len(txLog)].reply = "200")

\* a failed AddBranch between two accepted ones
C13_Witness ==
  /\ Len(txLog) = 3
  /\ txLog[1].reply = "200"
  /\ txLog[2].reply = "500"
  /\ txLog[3].reply = "200"
  /\ branches = <<Branch("b", "act"), Branch("a", "act")>>

---------------------------------------------------------------------------
(* Properties of the TCCManager.                                           *)

\* some call of the method returned an error
Failed(method) == \E i \in Steps : <<method, i>> \in failedCalls

\* tasks holding an element of the semaphore channel
Admitted == {i \in Steps : gpc[i] \in {"flight", "returned"}}

\* C14: in a parallel Try phase with MaxConcurrency = m >= 1 at most m Try
\* calls are in flight at any instant, whatever the number of steps, the
\* interleaving of the tasks and the outcomes of the calls; a task holds its
\* permit exactly from before its call until after it.
C14_ParallelTryBounded ==
  (tccPc = "Try" /\ ParallelBranches /\ MaxConcurrency >= 1) =>
    /\ Cardinality(InFlight) <= MaxConcurrency
    /\ permits = Cardinality(Admitted)
    /\ permits <= MaxConcurrency

\* more steps than permits: after a failed Try gave its permit back, as many
\* calls as permits are in flight and another task waits for a permit
C14_Witness ==
  /\ tccPc = "Try"
  /\ ParallelBranches
  /\ MaxConcurrency >= 1
  /\ Len(workflow) > MaxConcurrency
  /\ Cardinality(InFlight) = MaxConcurrency
  /\ \E i \in Steps : gpc[i] = "exited" /\ gerr[i] = "error"
  /\ \E i \in Steps : gpc[i] = "spawned"

\* C15: with MaxConcurrency >= 1, no more than MaxConcurrency branch calls of
\* any kind (Try, Confirm, Cancel) are in flight at the same instant.
C15_AllCallsBounded ==
  MaxConcurrency >= 1 => Cardinality(InFlight) <= MaxConcurrency

\* the Try and Confirm phases, parallel or sequential, keep that bound
C15_TryAndConfirmBounded ==
  (MaxConcurrency >= 1 /\ tccPc \in {"Try", "Confirm"}) =>
    Cardinality(InFlight) <= MaxConcurrency

\* C16: once a Try call has failed no Confirm is ever issued and no branch
\* gets a second Cancel; the execution returns only after one Cancel was
\* issued for every step of the workflow and all of them returned, and what
\* it returns, whatever the Cancel calls returned, is the try-phase error
\* wrapping a failed Try and naming that Try's branch.
C16_TryFailureCancelsAll ==
  Failed("Try") =>
    /\ \A i \in Steps : issued["Confirm"][i] = 0 /\ issued["Cancel"][i] <= 1
    /\ tccPc # "done" => tccResult = TCCRunning
    /\ tccPc = "done" =>
         /\ \A i \in Steps :
              /\ issued["Cancel"][i] = 1
              /\ gpc[i] = "exited"
              /\ gerr[i] # "none"
         /\ tccResult.kind \in {"TCC try phase failed",
                                "TCC try phase with barrier failed"}
         /\ tccResult.wraps.phase = "Try"
         /\ <<"Try", tccResult.wraps.step>> \in failedCalls
         /\ tccResult.branch = workflow[tccResult.wraps.step].BranchID

\* the Try of the second of three steps failed in sequential mode: the third
\* Try was never issued, all three got a Cancel, one Cancel failed, and the
\* error names branch b
C16_Witness ==
  /\ tccPc = "done"
  /\ ~ParallelBranches
  /\ Len(workflow) = 3
  /\ failedCalls = {<<"Try", 2>>, <<"Cancel", 1>>}
  /\ issued["Try"][3] = 0
  /\ \A i \in Steps : issued["Cancel"][i] = 1
  /\ tccResult.branch = "b"

\* C17: when a Confirm call has failed, every Try had succeeded; ExecuteTCC
\* and ExecuteTCCWithBarrier return only after one Cancel was issued for
\* every step, also for those whose Confirm succeeded, and they return,
\* whatever the Cancel calls returned, the confirm-phase error wrapping a
\* failed Confirm.
C17_ConfirmFailureCancelsAll ==
  Failed("Confirm") =>
    /\ ~Failed("Try")
    /\ \A i \in Steps : issued["Try"][i] = 1
    /\ tccPc # "done" => tccResult = TCCRunning
    /\ tccPc = "done" =>
         /\ \A i \in Steps : issued["Cancel"][i] = 1 /\ gerr[i] # "none"
         /\ tccResult.kind =
              (IF tccFn = "ExecuteTCC" THEN "TCC confirm phase failed"
               ELSE "TCC confirm phase with barrier failed")
         /\ tccResult.wraps.phase = "Confirm"
         /\ <<"Confirm", tccResult.wraps.step>> \in failedCalls

\* ExecuteTCCWithBarrier returned after the second Confirm failed: the first
\* step, whose Confirm had succeeded, was cancelled too, and a Cancel failed
C17_Witness ==
  /\ tccPc = "done"
  /\ tccFn = "ExecuteTCCWithBarrier"
  /\ Len(workflow) >= 2
  /\ <<"Confirm", 2>> \in failedCalls
  /\ <<"Confirm", 1>> \notin failedCalls
  /\ issued["Confirm"][1] = 1
  /\ issued["Cancel"][1] = 1
  /\ <<"Cancel", 2>> \in failedCalls

---------------------------------------------------------------------------
(* Properties of the SagaManager.                                          *)

\* the requests of one method, in the order they were made
Calls(method) == SelectSeq(txLog, LAMBDA call : call.method = method)

\* the latest request
LastCall == txLog[Len(txLog)]

\* compensationFunc was never invoked
NotCompensated == \A i \in Steps : compCount[i] = 0 /\ cpc[i] = "idle"

\* C12: for a malformed workflow (no steps, a duplicate branch ID or an
\* empty required field) no remote call is ever issued.
C12_MalformedRejectedBeforeRemoteCall ==
  ~WellFormed => txLog = <<>> /\ polls = 0

\* C18: the AddBranch requests are those of the workflow's steps in
\* definition order, none follows a failed one, and Abort is requested only
\* after a failed AddBranch; after the first failed AddBranch exactly one
\* Abort is requested, no Submit and no status poll, and the execution
\* returns the AddBranch error naming the failing step's branch, whatever
\* Abort returned.
C18_AddBranchInOrderAbortOnce ==
  LET adds == Calls("AddBranch")
      failed == adds # <<>> /\ adds[Len(adds)].reply # "200"
  IN /\ Len(adds) <= Len(workflow)
     /\ \A k \in DOMAIN adds :
          /\ adds[k].BranchID = workflow[k].BranchID
          /\ adds[k].Action = workflow[k].Action
          /\ k < Len(adds) => adds[k].reply = "200"
     /\ Calls("Abort") # <<>> => failed
     /\ failed =>
          /\ Calls("Submit") = <<>>
          /\ Calls("GetInfo") = <<>>
          /\ polls = 0
          /\ spc \in {"abort", "done"}
          /\ spc = "abort" =>
               /\ Calls("Abort") = <<>>
               /\ sagaResult = SagaRunning
          /\ spc = "done" =>
               /\ Len(Calls("Abort")) = 1
               /\ LastCall.method = "Abort"
               /\ sagaResult =
                    SagaReturn("failed to add branch",
                               workflow[Len(adds)].BranchID, <<>>)

\* the AddBranch of the first of two steps failed and so did the Abort: the
\* second step was never added and the error names branch a
C18_Witness ==
  /\ spc = "done"
  /\ Len(workflow) = 2
  /\ workflow[1].BranchID = "a"
  /\ Len(Calls("AddBranch")) = 1
  /\ LastCall = Request("Abort", "error")
  /\ sagaResult.branch = "a"

\* C19: after a failed Submit the execution has returned the submit error,
\* Submit is the last request made for the transaction, no GetInfo call was
\* ever begun and compensationFunc was never invoked.
C19_SubmitFailureIsFatal ==
  (\E k \in DOMAIN txLog :
     txLog[k].method = "Submit" /\ txLog[k].reply # "200") =>
    /\ spc = "done"
    /\ sagaResult = SagaReturn("failed to submit saga transaction", "", <<>>)
    /\ LastCall.method = "Submit"
    /\ polls = 0
    /\ Calls("GetInfo") = <<>>
    /\ NotCompensated

\* ExecuteSagaWithCompensation registered two branches and Submit failed
C19_Witness ==
  /\ sagaFn = "ExecuteSagaWithCompensation"
  /\ Len(branches) = 2
  /\ LastCall = Request("Submit", "error")
  /\ spc = "done"

\* C20: when a poll observes COMMITTED, StartTransaction, every AddBranch
\* and Submit had succeeded and every earlier poll had observed SUBMITTED;
\* the execution has returned nil, that poll is the last request made (no
\* further poll is begun, no Abort), and compensationFunc was never invoked.
C20_CommittedStopsPolling ==
  (\E k \in DOMAIN txLog :
     txLog[k].method = "GetInfo" /\ txLog[k].reply = StatusCommitted) =>
    /\ \A k \in 1..(Len(txLog) - 1) :
         txLog[k].reply = IF txLog[k].method = "GetInfo" THEN StatusSubmitted
                          ELSE "200"
    /\ LastCall = Request("GetInfo", StatusCommitted)
    /\ Len(Calls("AddBranch")) = Len(workflow)
    /\ polls = Len(Calls("GetInfo"))
    /\ spc = "done"
    /\ sagaResult = SagaReturnNil
    /\ Calls("Abort") = <<>>
    /\ NotCompensated

\* ExecuteSagaWithCompensation on two steps observed SUBMITTED, then
\* COMMITTED, with the context live and the timeout not reached
C20_Witness ==
  /\ sagaFn = "ExecuteSagaWithCompensation"
  /\ Len(workflow) = 2
  /\ Calls("GetInfo") =
       <<Request("GetInfo", StatusSubmitted),
         Request("GetInfo", StatusCommitted)>>
  /\ ~sCtxDone
  /\ ~sTimedOut
  /\ sagaResult = SagaReturnNil

---------------------------------------------------------------------------
(* Properties of executeCompensation.                                      *)

\* the coordinator's list has a branch with the step's ID and status FAILED
ReportedFailed(i) ==
  \E k \in DOMAIN reported :
    /\ reported[k].BranchID = workflow[i].BranchID
    /\ reported[k].Status = "FAILED"

\* the steps whose compensation returned an error
FailedCompensations == {i \in Steps : cerr[i] = "error"}

\* C21: once ExecuteSagaWithCompensation has read ABORTED, compensationFunc
\* is invoked exactly once for each workflow step whose BranchID the
\* coordinator reports with status FAILED, and never for a step whose branch
\* is not reported or is reported with another status.
C21_CompensatesExactlyFailedBranches ==
  \A i \in Steps :
    /\ compCount[i] <= 1
    /\ ~ReportedFailed(i) => compCount[i] = 0
    /\ (spc = "done" /\ ReportedFailed(i)) => compCount[i] = 1

\* a three-step workflow returned: the first step's branch was reported
\* SUCCEED and not compensated, the second FAILED and compensated once, the
\* third was not reported and not compensated
C21_Witness ==
  /\ spc = "done"
  /\ Len(workflow) = 3
  /\ reported =
       <<[BranchID |-> workflow[1].BranchID, Status |-> BranchStatusSucceed],
         [BranchID |-> workflow[2].BranchID, Status |-> BranchStatusFailed]>>
  /\ compCount = <<0, 1, 0>>

\* C22: for a workflow [X, Y, Z] whose three branches are all reported
\* FAILED, the compensation of Z is invoked before the compensation of X
\* completes.
C22_LastStepInvokedBeforeFirstCompletes ==
  (Len(workflow) = 3 /\ \A i \in Steps : ReportedFailed(i)) =>
    (cpc[1] = "done" => cpc[3] \in {"running", "done"})

\* what does hold of the order: the goroutines are started from the last
\* step to the first, so a step's goroutine exists only when the goroutine
\* of every later failed step does
C22_GoroutinesStartedInReverse ==
  \A i, j \in Steps :
    (i < j /\ cpc[i] # "idle" /\ ReportedFailed(j)) => cpc[j] # "idle"

\* C23: executeCompensation returns only after every compensation it started
\* has finished; when compensations fail, the returned error reports every
\* failing step, once each; no compensation is repeated.
C23_WaitsForAllAndReportsAllFailures ==
  /\ \A i \in Steps : compCount[i] <= 1
  /\ spc # "done" => sagaResult = SagaRunning
  /\ spc = "done" =>
       /\ \A i \in Steps : cpc[i] \in {"idle", "done"}
       /\ \A i \in Steps : compCount[i] = 1 => cerr[i] # "none"
       /\ {sagaResult.errs[k] : k \in DOMAIN sagaResult.errs}
            = FailedCompensations
       /\ Len(sagaResult.errs) = Cardinality(FailedCompensations)
       /\ FailedCompensations # {} => sagaResult.kind = "compensation failed"

\* three compensations were started; the first and the third failed, the
\* second succeeded, and the call has returned
C23_Witness ==
  /\ spc = "done"
  /\ Len(workflow) = 3
  /\ cerr = <<"error", "nil", "error">>
  /\ sagaResult.kind = "compensation failed"
  /\ Len(sagaResult.errs) = 2

---------------------------------------------------------------------------
(* Properties of the Saga polling loop.                                    *)

\* a poll of the execution read the status ABORTED
AbortedObserved ==
  \E k \in DOMAIN txLog :
    txLog[k].method = "GetInfo" /\ txLog[k].reply = StatusAborted

\* every poll so far read the status SUBMITTED
OnlySubmitted ==
  \A k \in DOMAIN txLog :
    txLog[k].method = "GetInfo" => txLog[k].reply = StatusSubmitted

\* the polls begun and not yet returned
PollsInFlight == polls - Len(Calls("GetInfo"))

\* C24: an execution in which a poll read ABORTED returns a non-nil error,
\* with or without a compensation function and whatever the compensation
\* calls return.
C24_AbortedReturnsError ==
  (AbortedObserved /\ spc = "done") => sagaResult # SagaReturnNil

\* what does hold: without a compensation function, or when a compensation
\* failed, the execution that read ABORTED returns an error
C24_AbortedWithoutCleanRecoveryReturnsError ==
  (AbortedObserved /\ spc = "done"
     /\ (sagaFn = "ExecuteSaga" \/ \E i \in Steps : cerr[i] = "error")) =>
    sagaResult # SagaReturnNil

\* the execution has returned the timeout error after the timer fired,
\* without compensating
TimedOut ==
  /\ spc = "done"
  /\ sTimedOut
  /\ sagaResult = SagaReturn("saga execution timeout", "", <<>>)
  /\ sagaResult.kind # "saga transaction aborted"
  /\ NotCompensated

\* C25: if every poll reads SUBMITTED and the context is never cancelled,
\* an execution that has begun polling eventually returns, after the timer
\* of options.Timeout has fired, with the timeout error, which is not the
\* error of an ABORTED status, and without invoking compensationFunc.
C25_PollingEndsInTimeout ==
  ([]~sCtxDone /\ []OnlySubmitted) => (spc = "poll" ~> TimedOut)

\* two polls read SUBMITTED, the context is live, and the execution returned
\* the timeout error
C25_Witness ==
  /\ TimedOut
  /\ ~sCtxDone
  /\ Calls("GetInfo") =
       <<Request("GetInfo", StatusSubmitted),
         Request("GetInfo", StatusSubmitted)>>

\* C26: once the context is cancelled, no further status poll is started.
C26_NoPollAfterCancel ==
  [][sCtxDone => polls' = polls]_vars

\* what does hold: a cancellation that arrives while the loop waits in the
\* select with no other case ready ends the execution with ctx.Err() and
\* without another poll
C26_CancelWhileWaitingStopsPolling ==
  [][(sCtxDone /\ spc = "poll" /\ ~sTimedOut /\ ~tickReady) =>
       /\ polls' = polls
       /\ spc' = "done"
       /\ sagaResult' = SagaReturn("context canceled", "", <<>>)]_vars

C30_PollsNeverOverlap ==
  /\ [](PollsInFlight \in {0, 1})
  /\ [](PollsInFlight = 1 <=> spc = "getinfo")
  /\ [][polls' # polls =>
         /\ spc = "poll"
         /\ PollsInFlight = 0
         /\ polls' = polls + 1]_vars

\* a second poll is in flight after the first one returned SUBMITTED
C30_Witness ==
  /\ polls = 2
  /\ Calls("GetInfo") = <<Request("GetInfo", StatusSubmitted)>>
  /\ spc = "getinfo"

---------------------------------------------------------------------------
(* Properties of the order of the branch calls of a TCC phase.             *)

\* the Try phase is over
TryPhaseOver ==
  tccPc \in {"Confirm", "Cancel", "done"} /\ tccResult # TCCStartFailed

\* C28: a parallel Try phase returns only when one Try was issued for every
\* step, failed ones notwithstanding, and every task has finished; the error
\* it returns is the first one sent to errChan, the failure that completed
\* first, and a Cancel phase follows exactly when there is one.
C28_ParallelTryNoFailFast ==
  /\ []((ParallelBranches /\ TryPhaseOver) =>
          \A i \in Steps : issued["Try"][i] = 1)
  /\ [][(ParallelBranches /\ tccPc = "Try" /\ tccPc' # "Try") =>
          /\ \A i \in Steps : gpc[i] = "exited" /\ gerr[i] # "none"
          /\ errChan = <<>> => tccPc' = "Confirm" /\ phaseErr' = NoPhaseError
          /\ errChan # <<>> =>
               tccPc' = "Cancel" /\ phaseErr' = errChan[1]]_vars

\* the Try calls of steps 1 and 2 both failed, that of step 2 first, and the
\* phase returned the error of step 2 after the Try of step 3 was issued
C28_Witness ==
  /\ ParallelBranches
  /\ Len(workflow) = 3
  /\ tccPc = "Cancel"
  /\ {<<"Try", 1>>, <<"Try", 2>>} \subseteq failedCalls
  /\ phaseErr = PhaseError("Try", 2)
  /\ issued["Try"] = <<1, 1, 1>>

\* the steps whose call of the phase was issued
Issued(phase) == {i \in Steps : issued[phase][i] > 0}

\* C29: with ParallelBranches unset the Try calls, and likewise the Confirm
\* calls, are issued one at a time in workflow order: a call is issued only
\* when the calls of all earlier steps have returned without error and none
\* is in flight, and no call is issued for a step after a failed one.
C29_SequentialInOrderStopsAtFailure ==
  /\ [](~ParallelBranches =>
          \A phase \in {"Try", "Confirm"} :
            /\ \A i \in Steps : issued[phase][i] <= 1
            /\ \A i \in Issued(phase) : 1..i \subseteq Issued(phase)
            /\ \A i \in Steps : <<phase, i>> \in failedCalls =>
                 Issued(phase) = 1..i)
  /\ [](~ParallelBranches /\ tccPc \in {"Try", "Confirm"} =>
          Cardinality(InFlight) <= 1)
  /\ [][\A i \in Steps :
          (~ParallelBranches /\ tccPc \in {"Try", "Confirm"}
             /\ issued'[tccPc][i] # issued[tccPc][i]) =>
            /\ InFlight = {}
            /\ \A j \in 1..(i - 1) : gpc[j] = "exited" /\ gerr[j] = "nil"
            /\ ~Failed(tccPc)]_vars

\* a sequential execution on three steps: every Try succeeded, the Confirm of
\* step 1 succeeded, that of step 2 failed and none was issued for step 3
C29_Witness ==
  /\ ~ParallelBranches
  /\ Len(workflow) = 3
  /\ issued["Try"] = <<1, 1, 1>>
  /\ issued["Confirm"] = <<1, 1, 0>>
  /\ <<"Confirm", 2>> \in failedCalls
  /\ tccPc = "done"

---------------------------------------------------------------------------
(* Properties of the methods of a Transaction.                             *)

\* the latest call was a call of the method
Called(method) ==
  /\ Len(txLog') = Len(txLog) + 1
  /\ txLog'[Len(txLog')].method = method

\* C31: a call of a method of the handle sends its request once: it makes
\* one HTTP attempt, also when that attempt fails.
C31_OneAttemptPerCall ==
  Len(sends) <= 1

\* what does hold: an attempt that got a response, of whatever status, is
\* the last of its call, and a call makes at most RetryCount + 1 attempts
C31_NoAttemptAfterResponse ==
  /\ Len(sends) <= RetryCount + 1
  /\ \A k \in 1..(Len(sends) - 1) : sends[k] = "error"

\* C33: a call of Try that succeeded has appended its branch to the end of
\* the branch list.
C33_SuccessfulTryAppendsBranch ==
  [][(Called("Try") /\ txLog'[Len(txLog')].reply = "200") =>
       branches' =
         Append(branches, Branch(txLog'[Len(txLog')].BranchID,
                                 txLog'[Len(txLog')].Action))]_vars

\* what does hold: a failed Try leaves the branch list as it was
C33_FailedTryLeavesBranches ==
  [][(Called("Try") /\ txLog'[Len(txLog')].reply # "200") =>
       branches' = branches]_vars

\* s is t or t with elements appended
IsPrefix(t, s) == Len(t) <= Len(s) /\ \A k \in DOMAIN t : s[k] = t[k]

\* C34: Submit, Abort, Confirm, Cancel, BranchSucceed, BranchFail and GetInfo
\* leave gid, mode, payload and the branch list as they were, whatever the
\* reply; no call of any method changes gid or mode, and none removes or
\* moves an element of the branch list.
C34_OnlyAddBranchChangesTheHandle ==
  [][/\ gid' = gid
     /\ txMode' = txMode
     /\ IsPrefix(branches, branches')
     /\ (\E method \in {"Submit", "Abort", "Confirm", "Cancel",
                         "BranchSucceed", "BranchFail", "GetInfo"} :
           Called(method)) =>
          payload' = payload /\ branches' = branches]_vars

\* a branch was registered and the handle was then aborted: the branch is
\* still in the list
C34_Witness ==
  /\ Len(txLog) = 2
  /\ txLog[1].method = "AddBranch"
  /\ txLog[1].reply = "200"
  /\ txLog[2] = Request("Abort", "200")
  /\ branches = <<Branch(txLog[1].BranchID, "act")>>
  /\ gid = "gid"

---------------------------------------------------------------------------
(* Properties of a Transaction shared by several tasks.                    *)

\* the AddBranch call of task t was answered with status 200
RegisteredBy(t) ==
  \E k \in DOMAIN txLog :
    txLog[k].BranchID = BranchNames[t] /\ txLog[k].reply = "200"

\* how often the branch of task t is in the branch list
Occurrences(t) ==
  Cardinality({k \in DOMAIN branches : branches[k] = BranchOf(t)})

\* C32: when all concurrent AddBranch calls on one handle have returned,
\* every branch that was registered is in the branch list exactly once.
C32_ConcurrentAddBranchKeepsAll ==
  (\A t \in Tasks : apc[t] = "done") =>
    /\ \A t \in Tasks : RegisteredBy(t) => Occurrences(t) = 1
    /\ txLog[1].BranchID = "d" =>
         Cardinality({k \in DOMAIN branches : branches[k] = EarlierBranch})
           = 1

\* what does hold: no branch is in the list twice, and none that was not
\* registered
C32_NoDuplicateAppend ==
  \A t \in Tasks :
    /\ Occurrences(t) <= 1
    /\ Occurrences(t) = 1 => RegisteredBy(t)

---------------------------------------------------------------------------
(* Properties of calculateBackoff.                                         *)

\* base_interval * backoff_factor^n, every value from Huge on kept as Huge
Product == ExponentialDelay(RetryInterval, BackoffFactor, backoffAttempt)

\* C35: the delay computed for attempt n is not negative and differs from
\* base_interval * backoff_factor^n by at most a tenth of that product.
C35_DelayNearProductAndNotNegative ==
  bpc = "done" =>
    /\ delay >= 0
    /\ delay - Product <= Product \div 10
    /\ Product - delay <= Product \div 10

\* what does hold: the same while the product and its jitter fit an int64
C35_HoldsWithinInt64 ==
  (bpc = "done" /\ Product + Product \div 20 <= MaxDuration) =>
    /\ delay >= 0
    /\ delay - Product <= Product \div 10
    /\ Product - delay <= Product \div 10

---------------------------------------------------------------------------
(* Properties of the phases of a TCC execution.                            *)

\* a call of the method is issued in this step
Issues(method) ==
  \E i \in Steps : issued'[method][i] # issued[method][i]

\* C36: a Confirm is issued only in the Confirm phase, which begins only
\* when one Try per step has returned without error; a Cancel is issued only
\* in the Cancel phase, which begins only when a Try or Confirm of the phase
\* before it has failed and no call of that phase is still under way or yet
\* to be made by a started task; and when no Try and no Confirm has failed
\* no Cancel is issued and the execution returns nil.
C36_PhasesSeparated ==
  /\ [][/\ \A method \in Methods : Issues(method) => tccPc = method
        /\ (tccPc' = "Confirm" /\ tccPc # "Confirm") =>
             /\ tccPc = "Try"
             /\ \A i \in Steps :
                  /\ issued["Try"][i] = 1
                  /\ gpc[i] = "exited"
                  /\ gerr[i] = "nil"
        /\ (tccPc' = "Cancel" /\ tccPc # "Cancel") =>
             /\ tccPc \in {"Try", "Confirm"}
             /\ \E i \in Steps : <<tccPc, i>> \in failedCalls'
             /\ \A i \in Steps :
                  \/ gpc[i] = "exited"
                  \/ ~ParallelBranches /\ gpc[i] = "pending"
                  \/ /\ ~ParallelBranches
                     /\ gpc[i] = "flight"
                     /\ <<tccPc, i>> \in failedCalls' \ failedCalls]_vars
  /\ []((~Failed("Try") /\ ~Failed("Confirm")) =>
          /\ \A i \in Steps : issued["Cancel"][i] = 0
          /\ (tccPc = "done" /\ tccResult # TCCStartFailed) =>
               tccResult = TCCReturnNil)

\* a parallel execution on three steps in which every Try and every Confirm
\* succeeded has returned nil without a Cancel
C36_Witness ==
  /\ ParallelBranches
  /\ Len(workflow) = 3
  /\ tccPc = "done"
  /\ tccResult = TCCReturnNil
  /\ issued =
       [Try |-> <<1, 1, 1>>, Confirm |-> <<1, 1, 1>>, Cancel |-> <<0, 0, 0>>]

\* a parallel execution on a workflow that has steps
ParallelOnSteps == ParallelBranches /\ Steps # {}

\* C37: a parallel Try or Confirm phase on a workflow with steps, all of
\* whose calls return, ends exactly when MaxConcurrency >= 1: then the phase
\* returns, with one call made for every step and every permit given back,
\* and the execution returns; with MaxConcurrency = 0 no call is ever made
\* and the execution never returns.
C37_ParallelPhaseEndsIffPermits ==
  /\ (ParallelOnSteps /\ MaxConcurrency >= 1) =>
       /\ (tccPc = "Try") ~> (tccPc \in {"Confirm", "Cancel"})
       /\ (tccPc = "Confirm") ~> (tccPc \in {"Cancel", "done"})
       /\ <>(tccPc = "done")
  /\ [][(ParallelOnSteps /\ tccPc \in {"Try", "Confirm"} /\ tccPc' # tccPc)
          => /\ permits = 0
             /\ \A i \in Steps : issued[tccPc][i] = 1]_vars
  /\ [](ParallelOnSteps /\ MaxConcurrency = 0 =>
          /\ \A method \in Methods, i \in Steps : issued[method][i] = 0
          /\ permits = 0
          /\ tccPc = "done" => tccResult = TCCStartFailed)

\* three steps went through both phases one at a time on a single permit
C37_Witness ==
  /\ ParallelBranches
  /\ MaxConcurrency = 1
  /\ Len(workflow) = 3
  /\ tccPc = "done"
  /\ \A i \in Steps : issued["Try"][i] = 1 /\ issued["Confirm"][i] = 1

---------------------------------------------------------------------------
(* The states a CircuitBreaker rests in.                                   *)

\* C38: with FailureThreshold >= 1 and one caller at a time, between calls
\* the failure count is not negative, an Open breaker holds a failure count
\* of at least FailureThreshold, a Closed breaker one below FailureThreshold,
\* and the breaker is not HalfOpen.
C38_RestingStates ==
  (FailureThreshold >= 1 /\ cbPc = "idle") =>
    /\ failureCount >= 0
    /\ state = CircuitBreakerOpen => failureCount >= FailureThreshold
    /\ state = CircuitBreakerClosed => failureCount < FailureThreshold
    /\ state # CircuitBreakerHalfOpen

\* the operation admitted in HalfOpen failed and left the breaker Open with
\* a failure count above the threshold
C38_Witness ==
  /\ FailureThreshold >= 1
  /\ cbPc = "idle"
  /\ cbCall = "ReturnErr"
  /\ cbFrom = CircuitBreakerHalfOpen
  /\ state = CircuitBreakerOpen
  /\ failureCount > FailureThreshold

---------------------------------------------------------------------------
(* A poll that fails or reads a status the loop does not know.             *)

\* the requests that are polls answered by neither SUBMITTED, COMMITTED nor
\* ABORTED
FailedOrUnknownPolls ==
  {k \in DOMAIN txLog :
     /\ txLog[k].method = "GetInfo"
     /\ txLog[k].reply \notin
          {StatusSubmitted, StatusCommitted, StatusAborted}}

\* C39: once a poll has failed or has read a status other than SUBMITTED,
\* COMMITTED and ABORTED, that poll is the last request made (it is not
\* repeated, no further poll is begun, no Abort is sent), the execution has
\* returned the error of that case and no compensation was invoked.
C39_FailedOrUnknownPollEndsExecution ==
  FailedOrUnknownPolls # {} =>
    /\ FailedOrUnknownPolls = {Len(txLog)}
    /\ polls = Len(Calls("GetInfo"))
    /\ spc = "done"
    /\ sagaResult =
         IF LastCall.reply = "error"
           THEN SagaReturn("failed to get transaction info", "", <<>>)
           ELSE SagaReturn("unknown transaction status", "", <<>>)
    /\ Calls("Abort") = <<>>
    /\ NotCompensated

\* ExecuteSagaWithCompensation on two steps read SUBMITTED and then failed
\* to read the transaction
C39_Witness ==
  /\ sagaFn = "ExecuteSagaWithCompensation"
  /\ Len(workflow) = 2
  /\ Calls("GetInfo") =
       <<Request("GetInfo", StatusSubmitted), Request("GetInfo", "error")>>
  /\ spc = "done"

---------------------------------------------------------------------------
(* ExecuteWithRetryAndValidation without a validator.                      *)

\* what a caller sees of a finished call: the invocations of the operation,
\* the backoff waits begun, and the result returned
Seen(n, w, kind, wraps) ==
  [invocations |-> n, waits |-> w, kind |-> kind, wraps |-> wraps]

Observed == Seen(invocations, waits, rResult.kind, rResult.wraps)

\* the waits of attempts 0 .. n - 1
WaitsOf(n) == [i \in 1..n |-> i - 1]

\* the first invocation that succeeds, 0 when there is none
FirstOk ==
  IF \E i \in 1..(MaxRetries + 1) : script[i] = "ok"
    THEN CHOOSE i \in 1..(MaxRetries + 1) :
           /\ script[i] = "ok"
           /\ \A j \in 1..(i - 1) : script[j] # "ok"
    ELSE 0

\* where the context was cancelled, whichever of the two functions runs
CancelPoint == IF cancelledAt = "waitOp" THEN "wait" ELSE cancelledAt

\* what ExecuteWithRetry's loop (retry.go:29-62) yields for the outcomes in
\* script, MaxRetries and a context cancelled at CancelPoint after
\* invAtCancel invocations; the function called does not occur in it
ExpectedOfRetry ==
  CASE CancelPoint = "before" -> Seen(0, <<>>, "ctx", NoError)
    [] CancelPoint \in {"head", "wait"} ->
         Seen(invAtCancel, WaitsOf(invAtCancel), "ctx", NoError)
    [] CancelPoint = "op" /\ script[invAtCancel] = "ok" ->
         Seen(invAtCancel, WaitsOf(invAtCancel - 1), "nil", NoError)
    [] CancelPoint = "op" /\ script[invAtCancel] # "ok"
         /\ invAtCancel = MaxRetries + 1 ->
         Seen(invAtCancel, WaitsOf(invAtCancel - 1), "exhausted",
              OperationError(invAtCancel))
    [] CancelPoint = "op" /\ script[invAtCancel] # "ok"
         /\ invAtCancel # MaxRetries + 1 ->
         Seen(invAtCancel, WaitsOf(invAtCancel), "ctx", NoError)
    [] CancelPoint = "never" /\ FirstOk # 0 ->
         Seen(FirstOk, WaitsOf(FirstOk - 1), "nil", NoError)
    [] CancelPoint = "never" /\ FirstOk = 0 ->
         Seen(MaxRetries + 1, WaitsOf(MaxRetries), "exhausted",
              OperationError(MaxRetries + 1))

\* C40: with a nil validator, for the same operation outcomes, the same
\* MaxRetries and the same cancellation point, a finished call of
\* ExecuteWithRetryAndValidation and a finished call of ExecuteWithRetry
\* have made the same number of operation invocations, begun the same
\* backoff waits and returned the same result (nil, the context's error, or
\* the exhausted-retries error wrapping the same last failure), and no
\* validation was made.
C40_NilValidatorBehavesLikeExecuteWithRetry ==
  (rpc = "done" /\ validatorNil) =>
    /\ Observed = ExpectedOfRetry
    /\ validations = 0

\* ExecuteWithRetryAndValidation with a nil validator was cancelled in the
\* wait after its second failed invocation and returned the context's error
C40_Witness ==
  /\ fn = "ExecuteWithRetryAndValidation"
  /\ validatorNil
  /\ rpc = "done"
  /\ cancelledAt = "waitOp"
  /\ invAtCancel = 2
  /\ rResult.kind = "ctx"

\* the same cancellation point reached by ExecuteWithRetry
C40_WitnessOfRetry ==
  /\ fn = "ExecuteWithRetry"
  /\ rpc = "done"
  /\ cancelledAt = "wait"
  /\ invAtCancel = 2
  /\ rResult.kind = "ctx"

====
